---- MODULE Spec2Model ----
(***************************************************************************)
(* Model of the listening tool: ListeningApp (js/app.js), AudioPlayer      *)
(* (js/modules/audio-player.js), QuizController                            *)
(* (js/modules/quiz-controller.js) and KeyboardShortcuts, together with    *)
(* the media element and the timer queue they run on.                      *)
(*                                                                         *)
(* Indices are 0-based as in the source; TLA+ sequences are 1-based, so    *)
(* cue i of the source is vttCues[i + 1].                                  *)
(* Times are in ticks; cue i spans [i, i + 1] and the recording lasts      *)
(* N + 1 ticks.                                                            *)
(***************************************************************************)
EXTENDS Integers, Sequences, FiniteSets, TLC

VARIABLES
    vttCues,              \* app.vttCues / audioPlayer.vttCues (same array)
    currentCueIndex,      \* app.currentCueIndex
    currentMode,          \* app.currentMode
    currentQuestions,     \* app.currentQuestions
    currentQuestionIndex, \* app.currentQuestionIndex
    autoPlayEnabled,      \* app.autoPlayEnabled
    sessionScore,         \* app.sessionScore {correct, total, byMode}
    results,              \* app.results
    statsShown,           \* statsSection displayed by showResults
    playerCueIndex,       \* audioPlayer.currentCueIndex
    isPlaying,            \* audioPlayer.isPlaying
    prevBtnDisabled,      \* audioPlayer.prevBtn.disabled
    nextBtnDisabled,      \* audioPlayer.nextBtn.disabled
    paused,               \* audio.paused
    currentTime,          \* audio.currentTime
    mediaEvents,          \* 'play' / 'pause' events queued by the media element
    currentQuestion,      \* quizController.currentQuestion
    selectedAnswer,       \* quizController.selectedAnswer
    isAnswered,           \* quizController.isAnswered
    btnDisabled,          \* answerButtons[i].disabled
    btnHidden,            \* answerButtons[i] has class 'hidden'
    timers,               \* pending setTimeout callbacks, in scheduling order
    emitted,              \* notifications raised by the last step
    answeredSinceLoad,    \* onAnswer notifications since the last loadQuestion
    endsSinceSeek,        \* onSentenceEnd notifications since the last seek
    quietSinceRestart,    \* restart() has run and no user input has followed it
    quietSinceAnswer,     \* an answer was scored and neither user input nor the
                          \* auto-advance callback has followed it
    answersAwaitingAdvance, \* answered notifications minus auto-advance attempts
    currentSpeed,         \* audioPlayer.currentSpeed, in percent
    playbackRate,         \* audio.playbackRate, in percent
    loadPc,               \* where loadLesson stands
    isLoading,            \* lessonLoader.isLoading
    allLessons,           \* lessonLoader.allLessons
    currentLesson,        \* app.currentLesson
    audioSrc,             \* audio.src
    requests,             \* the URLs fetched so far, in order
    response,             \* the server's reply to the pending fetch
    calls,                \* the calls of lessonLoader.loadAllLessons() so far
    clockTime,            \* the position handed to formatTime, in ms
    formatted             \* the string formatTime returns for it

appVars == << vttCues, currentCueIndex, currentMode, currentQuestions,
              currentQuestionIndex, autoPlayEnabled, sessionScore, results,
              statsShown, playerCueIndex, isPlaying, prevBtnDisabled,
              nextBtnDisabled, paused, currentTime, mediaEvents, currentQuestion,
              selectedAnswer, isAnswered, btnDisabled, btnHidden, timers, emitted,
              answeredSinceLoad, endsSinceSeek, quietSinceRestart,
              quietSinceAnswer, answersAwaitingAdvance, currentSpeed,
              playbackRate >>

loaderVars == << loadPc, isLoading, allLessons, currentLesson, audioSrc,
                 requests, response, calls >>

formatVars == << clockTime, formatted >>

vars == << appVars, loaderVars, formatVars >>

----------------------------------------------------------------------------
(* Bounds *)

MaxSegs == 2
MaxTotal == 1
MaxTimers == 1
MaxEvents == 1
MaxEnds == 2

----------------------------------------------------------------------------
(* Program constants *)

NumButtons == 4
feedbackDelay == 1500
autoSubmitDelay == 300
autoPlayDelay == 300
defaultMode == "comprehension"
Modes == {"comprehension", "grammar"}

(* CONFIG.speeds [1.0, 0.75, 0.5], in percent; the three rates are exact   *)
(* binary fractions, so indexOf's strict equality finds them.              *)
speeds == << 100, 75, 50 >>

Null == -1
NoQuestion == [id |-> 0, type |-> "none", nopts |-> 0, correct |-> 0]

ButtonIdx == 0 .. (NumButtons - 1)

(* The lesson: cue i (0-based) spans [i, i+1].  Cues cycle through three *)
(* shapes: two comprehension questions around a grammar one; one grammar   *)
(* question; no questions at all.                                          *)
QuestionsOf(i) ==
    CASE i % 3 = 0 ->
           << [id |-> 10 * i + 1, type |-> "comprehension", nopts |-> 2, correct |-> 0],
              [id |-> 10 * i + 2, type |-> "grammar", nopts |-> 3, correct |-> 1],
              [id |-> 10 * i + 3, type |-> "comprehension", nopts |-> 4, correct |-> 3] >>
      [] i % 3 = 1 ->
           << [id |-> 10 * i + 1, type |-> "grammar", nopts |-> 2, correct |-> 1] >>
      [] OTHER -> << >>

Cue(i) ==
    [start |-> i, end |-> i + 1, text |-> << "a" >>, questions |-> QuestionsOf(i)]

NoCue == [start |-> -1, end |-> -1, text |-> << >>, questions |-> << >>]

Lesson(n) == [k \in 1 .. n |-> Cue(k - 1)]

Duration(cues) == Len(cues) + 1

----------------------------------------------------------------------------
(* The state as one record, so that handlers compose as in the source.     *)
(* A step starts with no notification raised.                              *)

St == [ vttCues |-> vttCues, currentCueIndex |-> currentCueIndex,
        currentMode |-> currentMode, currentQuestions |-> currentQuestions,
        currentQuestionIndex |-> currentQuestionIndex,
        autoPlayEnabled |-> autoPlayEnabled, sessionScore |-> sessionScore,
        results |-> results, statsShown |-> statsShown,
        playerCueIndex |-> playerCueIndex, isPlaying |-> isPlaying,
        prevBtnDisabled |-> prevBtnDisabled, nextBtnDisabled |-> nextBtnDisabled,
        paused |-> paused, currentTime |-> currentTime,
        mediaEvents |-> mediaEvents, currentQuestion |-> currentQuestion,
        selectedAnswer |-> selectedAnswer, isAnswered |-> isAnswered,
        btnDisabled |-> btnDisabled, btnHidden |-> btnHidden,
        timers |-> timers, emitted |-> << >>,
        answeredSinceLoad |-> answeredSinceLoad, endsSinceSeek |-> endsSinceSeek,
        quietSinceRestart |-> quietSinceRestart,
        quietSinceAnswer |-> quietSinceAnswer,
        answersAwaitingAdvance |-> answersAwaitingAdvance,
        currentSpeed |-> currentSpeed, playbackRate |-> playbackRate ]

(* the application, the player and the quiz take the state t *)
Install(t) ==
    /\ vttCues' = t.vttCues
    /\ currentCueIndex' = t.currentCueIndex
    /\ currentMode' = t.currentMode
    /\ currentQuestions' = t.currentQuestions
    /\ currentQuestionIndex' = t.currentQuestionIndex
    /\ autoPlayEnabled' = t.autoPlayEnabled
    /\ sessionScore' = t.sessionScore
    /\ results' = t.results
    /\ statsShown' = t.statsShown
    /\ playerCueIndex' = t.playerCueIndex
    /\ isPlaying' = t.isPlaying
    /\ prevBtnDisabled' = t.prevBtnDisabled
    /\ nextBtnDisabled' = t.nextBtnDisabled
    /\ paused' = t.paused
    /\ currentTime' = t.currentTime
    /\ mediaEvents' = t.mediaEvents
    /\ currentQuestion' = t.currentQuestion
    /\ selectedAnswer' = t.selectedAnswer
    /\ isAnswered' = t.isAnswered
    /\ btnDisabled' = t.btnDisabled
    /\ btnHidden' = t.btnHidden
    /\ timers' = t.timers
    /\ emitted' = t.emitted
    /\ answeredSinceLoad' = t.answeredSinceLoad
    /\ endsSinceSeek' = t.endsSinceSeek
    /\ quietSinceRestart' = t.quietSinceRestart
    /\ quietSinceAnswer' = t.quietSinceAnswer
    /\ answersAwaitingAdvance' = t.answersAwaitingAdvance
    /\ currentSpeed' = t.currentSpeed
    /\ playbackRate' = t.playbackRate

(* A handler runs to completion: the step installs the state t that the   *)
(* handler returns.  Steps that would exceed a bound are not taken.        *)
Apply(result) == \E t \in {result} :
    /\ Len(t.timers) <= MaxTimers
    /\ Len(t.mediaEvents) <= MaxEvents
    /\ t.endsSinceSeek <= MaxEnds
    /\ Install(t)
    /\ UNCHANGED << loaderVars, formatVars >>

Emit(s, type, arg) ==
    [s EXCEPT !.emitted = Append(@, [type |-> type, arg |-> arg])]

NumEmitted(log, type) == Cardinality({k \in 1 .. Len(log) : log[k].type = type})

(* setTimeout(cb, delay): the callback joins the pending timers.  For the  *)
(* auto-advance callback cue and q record the segment and question index   *)
(* at which the answer was submitted.                                      *)
setTimeout(s, kind) ==
    [s EXCEPT !.timers =
        Append(@, IF kind = "advance"
                  THEN [kind |-> kind, cue |-> s.currentCueIndex,
                        q |-> s.currentQuestionIndex]
                  ELSE [kind |-> kind, cue |-> 0, q |-> 0])]

Delay(kind) ==
    CASE kind = "submit" -> autoSubmitDelay
      [] kind = "advance" -> feedbackDelay
      [] OTHER -> autoPlayDelay

----------------------------------------------------------------------------
(* The media element (HTMLMediaElement behind this.audio)                  *)

(* audio.pause(): paused is set at once, the 'pause' event is queued.      *)
audioPause(s) ==
    IF s.paused THEN s
    ELSE [s EXCEPT !.paused = TRUE, !.mediaEvents = Append(@, "pause")]

(* audio.play() returns a promise.  The element either refuses the request *)
(* at once (not allowed to play, or a source already found unusable) and   *)
(* changes nothing, or it takes the request: paused is cleared and the     *)
(* 'play' event is queued before the promise settles.  A request taken can *)
(* still be rejected afterwards, when the load fails or a pause() cuts it  *)
(* short.  The caller's catch handler only logs; playRejected marks the    *)
(* request whose promise is rejected (0 refused, 1 taken and rejected).    *)
PlayOutcomes == {"started", "refused", "failed"}

audioPlay(s, outcome) ==
    LET taken == IF s.paused
                 THEN [s EXCEPT !.paused = FALSE,
                                !.mediaEvents = Append(@, "play")]
                 ELSE s
    IN  CASE outcome = "started" -> taken
          [] outcome = "refused" -> Emit(s, "playRejected", 0)
          [] OTHER -> Emit(taken, "playRejected", 1)

(* audio.currentTime = t *)
audioSeek(s, t) == [s EXCEPT !.currentTime = t, !.endsSinceSeek = 0]

----------------------------------------------------------------------------
(* QuizController *)

loadQuestion(s, question) ==
    Emit([s EXCEPT !.currentQuestion = question,
                   !.selectedAnswer = Null,
                   !.isAnswered = FALSE,
                   !.btnDisabled = [i \in ButtonIdx |-> i < question.nopts],
                   !.btnHidden = [i \in ButtonIdx |-> i >= question.nopts],
                   !.answeredSinceLoad = 0],
         "loadQuestion", question.id)

(* showMessage that raises no no-questions signal *)
showMessage_silent(s) == [s EXCEPT !.btnHidden = [i \in ButtonIdx |-> TRUE]]

showMessage(s) ==
    Emit([s EXCEPT !.btnHidden = [i \in ButtonIdx |-> TRUE]], "noQuestions", 0)

enableAnswers(s) ==
    IF ~s.isAnswered
    THEN [s EXCEPT !.btnDisabled =
              [i \in ButtonIdx |-> IF ~s.btnHidden[i] THEN FALSE ELSE @[i]]]
    ELSE s

(* selectAnswer scoring at once instead of leaving it to submitAnswer *)
selectAnswer_scores(s, index) ==
    LET s0 == Emit(s, "selectAnswer", index)
    IN  IF s0.isAnswered \/ s0.currentQuestion = NoQuestion THEN s0
        ELSE IF index \in ButtonIdx
             THEN [s0 EXCEPT !.selectedAnswer = index, !.isAnswered = TRUE,
                             !.btnDisabled = [i \in ButtonIdx |-> TRUE]]
             ELSE s0

(* selectAnswer without the isAnswered guard *)
selectAnswer_unlocked(s, index) ==
    LET s0 == Emit(s, "selectAnswer", index)
    IN  IF s0.currentQuestion = NoQuestion THEN s0
        ELSE IF index \in ButtonIdx
             THEN setTimeout([s0 EXCEPT !.selectedAnswer = index], "submit")
             ELSE s0

(* selectAnswer scheduling the advance itself *)
selectAnswer_advances(s, index) ==
    LET s0 == Emit(s, "selectAnswer", index)
    IN  IF s0.isAnswered \/ s0.currentQuestion = NoQuestion THEN s0
        ELSE IF index \in ButtonIdx
             THEN setTimeout([s0 EXCEPT !.selectedAnswer = index], "advance")
             ELSE s0

selectAnswer(s, index) ==
    LET s0 == Emit(s, "selectAnswer", index)
    IN  IF s0.isAnswered \/ s0.currentQuestion = NoQuestion THEN s0
        ELSE IF index \in ButtonIdx
             THEN setTimeout([s0 EXCEPT !.selectedAnswer = index], "submit")
             ELSE s0

----------------------------------------------------------------------------
(* ListeningApp: scoring.  handleAnswer also schedules the hiding of the   *)
(* feedback area, which touches the display only and is left out.          *)

(* updateScore counting a wrong answer in the overall total only *)
updateScore_overallOnly(score, mode, correct) ==
    LET inc == IF correct THEN 1 ELSE 0
        old == IF mode \in DOMAIN score.byMode
               THEN score.byMode[mode]
               ELSE [correct |-> 0, total |-> 0]
        new == [correct |-> old.correct + inc, total |-> old.total + inc]
    IN  [correct |-> score.correct + inc,
         total |-> score.total + 1,
         byMode |-> [m \in (DOMAIN score.byMode) \cup {mode} |->
                        IF m = mode THEN new ELSE score.byMode[m]]]

updateScore(score, mode, correct) ==
    LET inc == IF correct THEN 1 ELSE 0
        old == IF mode \in DOMAIN score.byMode
               THEN score.byMode[mode]
               ELSE [correct |-> 0, total |-> 0]
        new == [correct |-> old.correct + inc, total |-> old.total + 1]
    IN  [correct |-> score.correct + inc,
         total |-> score.total + 1,
         byMode |-> [m \in (DOMAIN score.byMode) \cup {mode} |->
                        IF m = mode THEN new ELSE score.byMode[m]]]

handleAnswer(s, answer) ==
    setTimeout(
        [s EXCEPT !.sessionScore = updateScore(@, s.currentMode, answer.correct),
                  !.results = Append(@, [sentenceIndex |-> s.currentCueIndex,
                                         question |-> answer.question.id,
                                         correct |-> answer.correct]),
                  !.quietSinceAnswer = TRUE,
                  !.answersAwaitingAdvance = @ + 1],
        "advance")

(* submitAnswer without the isAnswered guard *)
submitAnswer_resubmits(s) ==
    IF s.selectedAnswer = Null \/ s.currentQuestion = NoQuestion
    THEN s
    ELSE LET correct == s.selectedAnswer = s.currentQuestion.correct
             s1 == [s EXCEPT !.isAnswered = TRUE,
                             !.btnDisabled = [i \in ButtonIdx |-> TRUE],
                             !.answeredSinceLoad = @ + 1]
         IN  handleAnswer(Emit(s1, "answered", IF correct THEN 1 ELSE 0),
                          [question |-> s.currentQuestion,
                           selected |-> s.selectedAnswer,
                           correct |-> correct])

submitAnswer(s) ==
    IF s.isAnswered \/ s.selectedAnswer = Null \/ s.currentQuestion = NoQuestion
    THEN s
    ELSE LET correct == s.selectedAnswer = s.currentQuestion.correct
             s1 == [s EXCEPT !.isAnswered = TRUE,
                             !.btnDisabled = [i \in ButtonIdx |-> TRUE],
                             !.answeredSinceLoad = @ + 1]
         IN  handleAnswer(Emit(s1, "answered", IF correct THEN 1 ELSE 0),
                          [question |-> s.currentQuestion,
                           selected |-> s.selectedAnswer,
                           correct |-> correct])

----------------------------------------------------------------------------
(* ListeningApp: questions of the current sentence *)

HasCue(s, index) == index >= 0 /\ index < Len(s.vttCues)

filterQuestionsByMode(mode, questions) ==
    SelectSeq(questions, LAMBDA q : q.type = mode)

(* vttCues[index] of the source: undefined outside the array *)
CueAt(s, index) == IF HasCue(s, index) THEN s.vttCues[index + 1] ELSE NoCue

(* handleSentenceChange storing the index before the one it is given *)
handleSentenceChange_offByOne(s, index, cue) ==
    LET s1 == [s EXCEPT !.currentCueIndex = index - 1]
        none == showMessage([s1 EXCEPT !.currentQuestions = << >>])
    IN  IF cue # NoCue /\ Len(cue.questions) > 0
        THEN LET questions == filterQuestionsByMode(s1.currentMode, cue.questions)
             IN  IF Len(questions) > 0
                 THEN loadQuestion([s1 EXCEPT !.currentQuestions = questions,
                                              !.currentQuestionIndex = 0],
                                   questions[1])
                 ELSE none
        ELSE none

handleSentenceChange(s, index, cue) ==
    LET s1 == [s EXCEPT !.currentCueIndex = index]
        none == showMessage([s1 EXCEPT !.currentQuestions = << >>])
    IN  IF cue # NoCue /\ Len(cue.questions) > 0
        THEN LET questions == filterQuestionsByMode(s1.currentMode, cue.questions)
             IN  IF Len(questions) > 0
                 THEN loadQuestion([s1 EXCEPT !.currentQuestions = questions,
                                              !.currentQuestionIndex = 0],
                                   questions[1])
                 ELSE none
        ELSE none

previousQuestion(s) ==
    IF s.currentQuestionIndex > 0 /\ Len(s.currentQuestions) > 0
    THEN loadQuestion([s EXCEPT !.currentQuestionIndex = @ - 1],
                      s.currentQuestions[s.currentQuestionIndex])
    ELSE s

(* nextQuestion moving the index without loading the question *)
nextQuestion_noLoad(s) ==
    IF s.currentQuestionIndex < Len(s.currentQuestions) - 1
    THEN [s EXCEPT !.currentQuestionIndex = @ + 1]
    ELSE s

nextQuestion(s) ==
    IF s.currentQuestionIndex < Len(s.currentQuestions) - 1
    THEN loadQuestion([s EXCEPT !.currentQuestionIndex = @ + 1],
                      s.currentQuestions[s.currentQuestionIndex + 2])
    ELSE s

----------------------------------------------------------------------------
(* AudioPlayer *)

updateNavigationButtons(s) ==
    [s EXCEPT !.prevBtnDisabled = (s.playerCueIndex <= 0),
              !.nextBtnDisabled = (s.playerCueIndex >= Len(s.vttCues) - 1)]

getCurrentCue(s) == CueAt(s, s.playerCueIndex)

(* updateCurrentSentence forgetting to reposition the audio *)
updateCurrentSentence_noSeek(s) == updateNavigationButtons(s)

updateCurrentSentence(s) ==
    LET s1 == updateNavigationButtons(s)
        cue == getCurrentCue(s1)
    IN  IF cue # NoCue THEN audioSeek(s1, cue.start) ELSE s1

(* the onSentenceChange callback installed by setupCallbacks *)
onSentenceChange(s, index, cue) ==
    handleSentenceChange(Emit(s, "sentenceChange", index), index, cue)

playCurrentSentence(s, outcome) ==
    IF s.playerCueIndex >= 0 /\ s.playerCueIndex < Len(s.vttCues)
    THEN audioPlay(audioSeek(s, s.vttCues[s.playerCueIndex + 1].start), outcome)
    ELSE s

togglePlayback(s, outcome) ==
    IF s.paused THEN playCurrentSentence(s, outcome) ELSE audioPause(s)

(* goToPreviousSentence without notifying the app *)
goToPreviousSentence_silent(s) ==
    IF s.playerCueIndex > 0
    THEN updateCurrentSentence([s EXCEPT !.playerCueIndex = @ - 1])
    ELSE s

goToPreviousSentence(s) ==
    IF s.playerCueIndex > 0
    THEN LET s1 == updateCurrentSentence([s EXCEPT !.playerCueIndex = @ - 1])
         IN  onSentenceChange(s1, s1.playerCueIndex, getCurrentCue(s1))
    ELSE s

(* goToNextSentence without notifying the app *)
goToNextSentence_silent(s) ==
    IF s.playerCueIndex < Len(s.vttCues) - 1
    THEN updateCurrentSentence([s EXCEPT !.playerCueIndex = @ + 1])
    ELSE s

(* goToNextSentence handing over the cue it has just left *)
goToNextSentence_staleCue(s) ==
    IF s.playerCueIndex < Len(s.vttCues) - 1
    THEN LET s1 == updateCurrentSentence([s EXCEPT !.playerCueIndex = @ + 1])
         IN  onSentenceChange(s1, s1.playerCueIndex, getCurrentCue(s))
    ELSE s

goToNextSentence(s) ==
    IF s.playerCueIndex < Len(s.vttCues) - 1
    THEN LET s1 == updateCurrentSentence([s EXCEPT !.playerCueIndex = @ + 1])
         IN  onSentenceChange(s1, s1.playerCueIndex, getCurrentCue(s1))
    ELSE s

(* CONFIG.speeds.indexOf(x): 0-based, -1 when absent *)
indexOf(seq, x) ==
    IF \E k \in 1 .. Len(seq) : seq[k] = x
    THEN (CHOOSE k \in 1 .. Len(seq) :
              seq[k] = x /\ \A j \in 1 .. (k - 1) : seq[j] # x) - 1
    ELSE -1

(* toggleSpeed that never reaches the last entry *)
toggleSpeed_skipsLast(s) ==
    LET speedIndex == indexOf(speeds, s.currentSpeed)
        nextIndex == (speedIndex + 1) % (Len(speeds) - 1)
    IN  [s EXCEPT !.currentSpeed = speeds[nextIndex + 1],
                  !.playbackRate = speeds[nextIndex + 1]]

toggleSpeed(s) ==
    LET speedIndex == indexOf(speeds, s.currentSpeed)
        nextIndex == (speedIndex + 1) % Len(speeds)
    IN  [s EXCEPT !.currentSpeed = speeds[nextIndex + 1],
                  !.playbackRate = speeds[nextIndex + 1]]

handleTimeUpdate(s) ==
    IF Len(s.vttCues) > 0 /\ s.isPlaying
    THEN IF HasCue(s, s.playerCueIndex)
            /\ s.currentTime >= s.vttCues[s.playerCueIndex + 1].end
         THEN LET s1 == Emit(audioPause(s), "sentenceEnd", s.playerCueIndex)
              IN  enableAnswers([s1 EXCEPT !.endsSinceSeek = @ + 1])
         ELSE s
    ELSE s

pause(s) == IF ~s.paused THEN audioPause(s) ELSE s

reset(s) ==
    updateCurrentSentence(audioSeek(pause([s EXCEPT !.playerCueIndex = 0]), 0))

----------------------------------------------------------------------------
(* ListeningApp: navigation *)

showResults(s) ==
    Emit(pause([s EXCEPT !.statsShown = TRUE]), "lessonComplete", 0)

(* nextSentence without the end-of-lesson branch *)
nextSentence_noComplete(s) == goToNextSentence(s)

nextSentence(s) ==
    IF s.currentCueIndex < Len(s.vttCues) - 1
    THEN goToNextSentence(s)
    ELSE showResults(s)

nextSentenceWithAutoPlay(s) ==
    IF s.currentCueIndex < Len(s.vttCues) - 1
    THEN LET s1 == goToNextSentence(s)
         IN  IF s1.autoPlayEnabled THEN setTimeout(s1, "autoplay") ELSE s1
    ELSE showResults(s)

previousSentence(s) ==
    IF s.currentCueIndex > 0 THEN goToPreviousSentence(s) ELSE s

(* the callback as it enters: an auto-advance attempt, which carries 1    *)
(* when nothing but the answer's own timer preceded it                     *)
AdvanceAttempt(s) ==
    Emit([s EXCEPT !.quietSinceAnswer = FALSE,
                   !.answersAwaitingAdvance = @ - 1],
         "autoAdvance", IF s.quietSinceAnswer THEN 1 ELSE 0)

(* an auto-advance that never leaves the segment *)
autoAdvance_staysPut(s) == nextQuestion(AdvanceAttempt(s))

(* the auto-advance callback scheduled by handleAnswer *)
autoAdvance(s) ==
    IF s.currentQuestionIndex < Len(s.currentQuestions) - 1
    THEN nextQuestion(AdvanceAttempt(s))
    ELSE nextSentenceWithAutoPlay(AdvanceAttempt(s))

(* a mode change that starts the score afresh *)
changeMode_resetsScore(s, mode) ==
    handleSentenceChange([s EXCEPT !.currentMode = mode,
                                   !.currentQuestionIndex = 0,
                                   !.sessionScore = [correct |-> 0, total |-> 0,
                                                     byMode |-> [m \in {} |-> 0]]],
                         s.currentCueIndex, CueAt(s, s.currentCueIndex))

(* a mode change that goes back to the first segment *)
changeMode_firstSegment(s, mode) ==
    handleSentenceChange([s EXCEPT !.currentMode = mode,
                                   !.currentQuestionIndex = 0],
                         0, CueAt(s, 0))

changeMode(s, mode) ==
    handleSentenceChange([s EXCEPT !.currentMode = mode,
                                   !.currentQuestionIndex = 0],
                         s.currentCueIndex, CueAt(s, s.currentCueIndex))

EmptyScore == [correct |-> 0, total |-> 0, byMode |-> [m \in {} |-> 0]]

(* restart that keeps the session score *)
restart_keepsScore(s) ==
    LET s1 == reset([s EXCEPT !.currentCueIndex = 0, !.results = << >>])
        s2 == [s1 EXCEPT !.statsShown = FALSE]
    IN  handleSentenceChange(s2, 0, CueAt(s2, 0))

restart(s) ==
    LET s1 == reset([s EXCEPT !.currentCueIndex = 0, !.results = << >>])
        s2 == [s1 EXCEPT !.sessionScore = EmptyScore, !.statsShown = FALSE]
    IN  handleSentenceChange(s2, 0, CueAt(s2, 0))

----------------------------------------------------------------------------
(* Strings.  A string is the sequence of its characters, each a string of  *)
(* length one; the operators below do what the JavaScript methods of the   *)
(* same names do.                                                          *)

WhiteSpace == {" ", "\t", "\r", "\n"}

(* const x = v; F(x): v is computed once *)
With(v, F(_)) == CHOOSE r \in {F(x) : x \in {v}} : TRUE

Digits == {"0", "1", "2", "3", "4", "5", "6", "7", "8", "9"}

DigitVal(c) ==
    CASE c = "0" -> 0 [] c = "1" -> 1 [] c = "2" -> 2 [] c = "3" -> 3
      [] c = "4" -> 4 [] c = "5" -> 5 [] c = "6" -> 6 [] c = "7" -> 7
      [] c = "8" -> 8 [] c = "9" -> 9

DigitChar(d) == << "0", "1", "2", "3", "4", "5", "6", "7", "8", "9" >>[d + 1]

(* str.startsWith(pat, from): pat occurs in str at position from (1-based) *)
OccursAt(str, pat, from) ==
    /\ from + Len(pat) - 1 <= Len(str)
    /\ \A k \in 1 .. Len(pat) : str[from + k - 1] = pat[k]

(* the positions (1-based) at which pat occurs in str *)
Occurrences(str, pat) == {p \in 1 .. Len(str) : OccursAt(str, pat, p)}

Least(S) == CHOOSE x \in S : \A y \in S : x <= y

(* str.includes(pat) *)
includes(str, pat) == Occurrences(str, pat) # {}

(* str.indexOf(pat), 0-based, -1 when absent *)
strIndexOf(str, pat) ==
    With(Occurrences(str, pat), LAMBDA occ :
        IF occ = {} THEN -1 ELSE Least(occ) - 1)

(* str.substring(from) and str.substring(from, to), 0-based, to excluded *)
substringFrom(str, from) == SubSeq(str, from + 1, Len(str))

substring(str, from, to) == SubSeq(str, from + 1, to)

(* str.trim() *)
trim(str) ==
    With(str, LAMBDA t :
        With({p \in 1 .. Len(t) : t[p] \notin WhiteSpace}, LAMBDA inked :
            IF inked = {} THEN << >>
            ELSE SubSeq(t, Least(inked),
                        CHOOSE p \in inked : \A q \in inked : q <= p)))

(* str.split(sep) for a separator pat of one or more characters, and       *)
(* str.split(/[...]/) for a set seps of one-character separators.  cuts    *)
(* are the positions where a separator starts, taken from left to right    *)
(* without overlap.                                                        *)
Cuts(str, pat) ==
    LET taken[p \in 0 .. Len(str)] ==
            IF p = 0 THEN {}
            ELSE With(taken[p - 1], LAMBDA before :
                     IF OccursAt(str, pat, p)
                        /\ \A q \in before : q + Len(pat) <= p
                     THEN before \cup {p}
                     ELSE before)
    IN  taken[Len(str)]

(* the pieces between the cuts: the k-th piece ends before the k-th cut    *)
(* (the last one at the end of str) and starts after the cut before it     *)
Pieces(str, cuts, width) ==
    LET ends == cuts \cup {Len(str) + 1}
        From(e) == IF \E c \in cuts : c < e
                   THEN (CHOOSE c \in cuts :
                            c < e /\ \A d \in cuts : d < e => d <= c) + width
                   ELSE 1
        End(k) == CHOOSE e \in ends : Cardinality({d \in ends : d < e}) = k - 1
    IN  [k \in 1 .. Cardinality(ends) |->
            With(End(k), LAMBDA e : SubSeq(str, From(e), e - 1))]

split(str, pat) ==
    With(str, LAMBDA t :
        With(IF Len(pat) = 1 THEN Occurrences(t, pat) ELSE Cuts(t, pat),
             LAMBDA cuts : Pieces(t, cuts, Len(pat))))

splitAny(str, seps) ==
    With(str, LAMBDA t :
        With({p \in 1 .. Len(t) : t[p] \in seps}, LAMBDA cuts :
            Pieces(t, cuts, 1)))

(* lines.join(sep) *)
join(strs, sep) ==
    LET acc[k \in 0 .. Len(strs)] ==
            IF k = 0 THEN << >>
            ELSE IF k = 1 THEN strs[1]
            ELSE acc[k - 1] \o sep \o strs[k]
    IN  acc[Len(strs)]

(* NaN, kept apart from every number the model computes *)
NaN == -1000000000

isNaN(x) == x = NaN

(* parseInt(str): leading white space is skipped, a sign is honoured, the  *)
(* longest run of decimal digits is read; NaN when there is no digit.      *)
parseInt(str) ==
    With(trim(str), LAMBDA body :
        LET signed == body # << >> /\ body[1] \in {"-", "+"}
            num == IF signed THEN Tail(body) ELSE body
            stops == {p \in 1 .. Len(num) : num[p] \notin Digits}
            n == IF stops = {} THEN Len(num) ELSE Least(stops) - 1
            val[k \in 0 .. n] ==
                IF k = 0 THEN 0 ELSE 10 * val[k - 1] + DigitVal(num[k])
        IN  IF n = 0 THEN NaN
            ELSE IF signed /\ body[1] = "-" THEN 0 - val[n] ELSE val[n])

(* x || 0 for a number x *)
OrZero(x) == With(x, LAMBDA v : IF isNaN(v) THEN 0 ELSE v)

(* number.toString() for a non-negative integer *)
toString(n) ==
    LET digits[m \in 0 .. n] ==
            IF m < 10 THEN << DigitChar(m) >>
            ELSE Append(digits[m \div 10], DigitChar(m % 10))
    IN  digits[n]

(* str.padStart(2, '0') *)
padStart2(str) == IF Len(str) < 2 THEN << "0" >> \o str ELSE str

----------------------------------------------------------------------------
(* LessonLoader: the caption parser.  Times are in milliseconds (the       *)
(* source computes seconds + ms / 1000).                                   *)

parseTimeToSeconds(timeStr) ==
    With(split(timeStr, << ":" >>), LAMBDA parts :
    With(splitAny(parts[Len(parts)], {".", ","}), LAMBDA seconds :
    With(OrZero(parseInt(seconds[1])), LAMBDA sec :
    With(IF Len(seconds) >= 2 /\ seconds[2] # << >>
         THEN parseInt(seconds[2])
         ELSE 0, LAMBDA ms :
        IF isNaN(ms) THEN NaN
        ELSE IF Len(parts) = 3
             THEN OrZero(parseInt(parts[1])) * 3600000
                  + OrZero(parseInt(parts[2])) * 60000 + sec * 1000 + ms
        ELSE IF Len(parts) = 2
             THEN OrZero(parseInt(parts[1])) * 60000 + sec * 1000 + ms
        ELSE sec * 1000 + ms))))

(* The caption texts of the model write the key "questions" with its       *)
(* quotes as the one character Q, and a whole question object as one       *)
(* character: q a comprehension question, r a grammar question.            *)
Sentinel == << "{", "Q" >>

QuestionChars == {"q", "r"}

QuestionOf(c) ==
    IF c = "q"
    THEN [id |-> 1, type |-> "comprehension", nopts |-> 2, correct |-> 0]
    ELSE [id |-> 2, type |-> "grammar", nopts |-> 3, correct |-> 1]

(* JSON.parse(jsonString).questions.  Over the characters of the model a   *)
(* text starting with the sentinel is well-formed JSON exactly when it is  *)
(* {Q:[ ... ]} with the question objects separated by commas (white space  *)
(* allowed between the tokens); on any other text JSON.parse throws.       *)
Tokens(str) == SelectSeq(str, LAMBDA c : c \notin WhiteSpace)

JSONparses(jsonString) ==
    \E tok \in {Tokens(jsonString)} :
    LET n == Len(tok)
    IN  /\ n >= 6
        /\ SubSeq(tok, 1, 4) = << "{", "Q", ":", "[" >>
        /\ SubSeq(tok, n - 1, n) = << "]", "}" >>
        /\ (n - 6) % 2 = (IF n = 6 THEN 0 ELSE 1)
        /\ \A k \in 5 .. (n - 2) :
              IF (k - 5) % 2 = 0 THEN tok[k] \in QuestionChars ELSE tok[k] = ","

JSONquestions(jsonString) ==
    With(SelectSeq(jsonString, LAMBDA c : c \in QuestionChars), LAMBDA items :
        [k \in 1 .. Len(items) |-> QuestionOf(items[k])])

Arrow == << "-", "-", ">" >>

(* parseCueWithQuestions giving up the cue when JSON.parse throws *)
parseCueWithQuestions_abortsOnBadJSON(timeLine, allLines, lineIndex) ==
    With(split(timeLine, Arrow), LAMBDA timeParts :
    IF Len(timeParts) < 2 THEN NoCue
    ELSE
    With(parseTimeToSeconds(trim(timeParts[1])), LAMBDA startTime :
    With(parseTimeToSeconds(split(trim(timeParts[2]), << " " >>)[1]),
         LAMBDA endTime :
    IF isNaN(startTime) \/ isNaN(endTime) THEN NoCue
    ELSE
    With(IF lineIndex + 1 < Len(allLines)
         THEN trim(allLines[lineIndex + 2])
         ELSE << >>, LAMBDA contentLine :
    With(strIndexOf(contentLine, Sentinel), LAMBDA jsonStart :
    With(IF jsonStart >= 0
         THEN trim(substring(contentLine, 0, jsonStart))
         ELSE contentLine, LAMBDA text :
    With(IF jsonStart >= 0
         THEN substringFrom(contentLine, jsonStart)
         ELSE << >>, LAMBDA jsonString :
        IF text = << >> \/ (jsonStart >= 0 /\ ~JSONparses(jsonString)) THEN NoCue
        ELSE [start |-> startTime, end |-> endTime, text |-> trim(text),
              questions |-> IF jsonStart >= 0 /\ JSONparses(jsonString)
                            THEN JSONquestions(jsonString)
                            ELSE << >>])))))))

(* parseCueWithQuestions without the test for an empty text *)
parseCueWithQuestions_keepsEmpty(timeLine, allLines, lineIndex) ==
    With(split(timeLine, Arrow), LAMBDA timeParts :
    IF Len(timeParts) < 2 THEN NoCue
    ELSE
    With(parseTimeToSeconds(trim(timeParts[1])), LAMBDA startTime :
    With(parseTimeToSeconds(split(trim(timeParts[2]), << " " >>)[1]),
         LAMBDA endTime :
    IF isNaN(startTime) \/ isNaN(endTime) THEN NoCue
    ELSE
    With(IF lineIndex + 1 < Len(allLines)
         THEN trim(allLines[lineIndex + 2])
         ELSE << >>, LAMBDA contentLine :
    With(strIndexOf(contentLine, Sentinel), LAMBDA jsonStart :
    With(IF jsonStart >= 0
         THEN trim(substring(contentLine, 0, jsonStart))
         ELSE contentLine, LAMBDA text :
    With(IF jsonStart >= 0
         THEN substringFrom(contentLine, jsonStart)
         ELSE << >>, LAMBDA jsonString :
        IF FALSE THEN NoCue
        ELSE [start |-> startTime, end |-> endTime, text |-> trim(text),
              questions |-> IF jsonStart >= 0 /\ JSONparses(jsonString)
                            THEN JSONquestions(jsonString)
                            ELSE << >>])))))))

(* parseCueWithQuestions returns null (NoCue) or the cue.  allLines    *)
(* is indexed from 0 in the source: allLines[lineIndex + 1] there is       *)
(* allLines[lineIndex + 2] here.                                           *)
parseCueWithQuestions(timeLine, allLines, lineIndex) ==
    With(split(timeLine, Arrow), LAMBDA timeParts :
    IF Len(timeParts) < 2 THEN NoCue
    ELSE
    With(parseTimeToSeconds(trim(timeParts[1])), LAMBDA startTime :
    With(parseTimeToSeconds(split(trim(timeParts[2]), << " " >>)[1]),
         LAMBDA endTime :
    IF isNaN(startTime) \/ isNaN(endTime) THEN NoCue
    ELSE
    With(IF lineIndex + 1 < Len(allLines)
         THEN trim(allLines[lineIndex + 2])
         ELSE << >>, LAMBDA contentLine :
    With(strIndexOf(contentLine, Sentinel), LAMBDA jsonStart :
    With(IF jsonStart >= 0
         THEN trim(substring(contentLine, 0, jsonStart))
         ELSE contentLine, LAMBDA text :
    With(IF jsonStart >= 0
         THEN substringFrom(contentLine, jsonStart)
         ELSE << >>, LAMBDA jsonString :
        IF text = << >> THEN NoCue
        ELSE [start |-> startTime, end |-> endTime, text |-> trim(text),
              questions |-> IF jsonStart >= 0 /\ JSONparses(jsonString)
                            THEN JSONquestions(jsonString)
                            ELSE << >>])))))))

(* parseVTTWithQuestions leaving out a cue equal to one already collected *)
parseVTTWithQuestions_dedup(vttText) ==
    IF vttText = << >> THEN << >>
    ELSE
    With(split(vttText, << "\n" >>), LAMBDA lines :
        LET found == [i \in 1 .. Len(lines) |->
                         With(trim(lines[i]), LAMBDA line :
                             IF includes(line, Arrow)
                             THEN parseCueWithQuestions(line, lines, i - 1)
                             ELSE NoCue)]
            fresh == [i \in 1 .. Len(lines) |->
                         IF \E j \in 1 .. (i - 1) : found[j] = found[i]
                         THEN NoCue
                         ELSE found[i]]
        IN  SelectSeq(fresh, LAMBDA cue : cue # NoCue))

(* parseVTTWithQuestions: every line that contains the arrow is handed to  *)
(* parseCueWithQuestions, in order, and the cues it returns are collected; *)
(* the header loop only skips lines that the second loop would skip too.   *)
parseVTTWithQuestions(vttText) ==
    IF vttText = << >> THEN << >>
    ELSE
    With(split(vttText, << "\n" >>), LAMBDA lines :
        LET found == [i \in 1 .. Len(lines) |->
                         With(trim(lines[i]), LAMBDA line :
                             IF includes(line, Arrow)
                             THEN parseCueWithQuestions(line, lines, i - 1)
                             ELSE NoCue)]
        IN  SelectSeq(found, LAMBDA cue : cue # NoCue))

(* formatTime showing the minutes within the hour only *)
formatTime_withinHour(time) ==
    toString((time \div 60000) % 60) \o << ":" >>
        \o padStart2(toString((time % 60000) \div 1000))

(* updateProgress: formatTime, for a time in milliseconds *)
formatTime(time) ==
    LET minutes == time \div 60000
        seconds == (time % 60000) \div 1000
    IN  toString(minutes) \o << ":" >> \o padStart2(toString(seconds))

----------------------------------------------------------------------------
(* Caption texts.  A text is an optional header followed by marker blocks; *)
(* a block is its marker line, preceded by an index line or not, the lines *)
(* that follow it and, when closed, the blank line that ends it.  start    *)
(* and end are the times the marker line denotes, -1 where it denotes      *)
(* none.                                                                   *)

MaxBlocks == 2

PlainBlock ==
    [ kind |-> "plain", closed |-> TRUE, start |-> 1000, end |-> 2500,
      lines |->
        << << "0", "0", ":", "0", "0", ":", "0", "1", ".", "0", "0", "0", " ", "-", "-", ">", " ", "0", "0", ":", "0", "0", ":", "0", "2", ".", "5", "0", "0" >>,
           << "a", "b" >> >> ]

AskedBlock ==
    [ kind |-> "asked", closed |-> TRUE, start |-> 3000, end |-> 4250,
      lines |->
        << << "0", "0", ":", "0", "3", ".", "0", "0", "0", " ", "-", "-", ">", " ", "0", "0", ":", "0", "4", ",", "2", "5", "0" >>,
           << "b", "a", "{", "Q", ":", "[", "q", ",", "r", "]", "}" >> >> ]

NumberedBlock ==
    [ kind |-> "numbered", closed |-> TRUE, start |-> 5000, end |-> 6000,
      lines |->
        << << "7", "\r" >>,
           << "5", ".", "0", "0", "0", " ", "-", "-", ">", " ", "6", ".", "0", "0", "0", " ", "l", "\r" >>,
           << " ", "a", " ", "b", "\r" >> >> ]

ReversedBlock ==
    [ kind |-> "reversed", closed |-> TRUE, start |-> 9000, end |-> 8000,
      lines |->
        << << "0", "0", ":", "0", "9", ".", "0", "0", "0", " ", "-", "-", ">", " ", "0", "0", ":", "0", "8", ".", "0", "0", "0" >>,
           << "a", "b" >> >> ]

GarbledBlock ==
    [ kind |-> "garbled", closed |-> TRUE, start |-> -1, end |-> 11000,
      lines |->
        << << "0", "b", ":", "1", "a", ".", "0", "0", "0", " ", "-", "-", ">", " ", "0", "0", ":", "1", "1", ".", "0", "0", "0" >>,
           << "a", "b" >> >> ]

BadFractionBlock ==
    [ kind |-> "badFraction", closed |-> TRUE, start |-> -1, end |-> 13000,
      lines |->
        << << "0", "0", ":", "1", "2", ".", "b", "0", "0", " ", "-", "-", ">", " ", "0", "0", ":", "1", "3", ".", "0", "0", "0" >>,
           << "a", "b" >> >> ]

NoTextBlock ==
    [ kind |-> "noText", closed |-> TRUE, start |-> 14000, end |-> 15000,
      lines |->
        << << "0", "0", ":", "1", "4", ".", "0", "0", "0", " ", "-", "-", ">", " ", "0", "0", ":", "1", "5", ".", "0", "0", "0" >> >> ]

JsonOnlyBlock ==
    [ kind |-> "jsonOnly", closed |-> TRUE, start |-> 16000, end |-> 17000,
      lines |->
        << << "0", "0", ":", "1", "6", ".", "0", "0", "0", " ", "-", "-", ">", " ", "0", "0", ":", "1", "7", ".", "0", "0", "0" >>,
           << "{", "Q", ":", "[", "q", "]", "}" >> >> ]

BadJsonBlock ==
    [ kind |-> "badJson", closed |-> TRUE, start |-> 18000, end |-> 19000,
      lines |->
        << << "0", "0", ":", "1", "8", ".", "0", "0", "0", " ", "-", "-", ">", " ", "0", "0", ":", "1", "9", ".", "0", "0", "0" >>,
           << "a", "b", "{", "Q", ":", "[", "q" >> >> ]

SplitJsonBlock ==
    [ kind |-> "splitJson", closed |-> TRUE, start |-> 20000, end |-> 21000,
      lines |->
        << << "0", "0", ":", "2", "0", ".", "0", "0", "0", " ", "-", "-", ">", " ", "0", "0", ":", "2", "1", ".", "0", "0", "0" >>,
           << "a", "b" >>,
           << "{", "Q", ":", "[" >>,
           << "r", "]", "}" >> >> ]

TwoLinesBlock ==
    [ kind |-> "twoLines", closed |-> TRUE, start |-> 22000, end |-> 23000,
      lines |->
        << << "0", "0", ":", "2", "2", ".", "0", "0", "0", " ", "-", "-", ">", " ", "0", "0", ":", "2", "3", ".", "0", "0", "0" >>,
           << "a", "b" >>,
           << "b", "a" >> >> ]

BareBlock ==
    [ kind |-> "bare", closed |-> FALSE, start |-> 24000, end |-> 25000,
      lines |->
        << << "0", "0", ":", "2", "4", ".", "0", "0", "0", " ", "-", "-", ">", " ", "0", "0", ":", "2", "5", ".", "0", "0", "0" >> >> ]

BadJsonFixedBlock ==
    [ kind |-> "badJsonFixed", closed |-> TRUE, start |-> 18000, end |-> 19000,
      lines |->
        << << "0", "0", ":", "1", "8", ".", "0", "0", "0", " ", "-", "-", ">", " ", "0", "0", ":", "1", "9", ".", "0", "0", "0" >>,
           << "a", "b", "{", "Q", ":", "[", "q", "]", "}" >> >> ]

SameLineJsonBlock ==
    [ kind |-> "sameLineJson", closed |-> TRUE, start |-> 20000, end |-> 21000,
      lines |->
        << << "0", "0", ":", "2", "0", ".", "0", "0", "0", " ", "-", "-", ">", " ", "0", "0", ":", "2", "1", ".", "0", "0", "0" >>,
           << "a", "b", "{", "Q", ":", "[", "r", "]", "}" >> >> ]

Blocks ==
    { PlainBlock, AskedBlock, NumberedBlock, ReversedBlock, GarbledBlock,
      BadFractionBlock, NoTextBlock, JsonOnlyBlock, BadJsonBlock,
      SplitJsonBlock, TwoLinesBlock, BareBlock }

Headers == { << >>, << << "W", "E", "B", "V", "T", "T" >>, << >> >> }

BlockSeqs == UNION { [1 .. n -> Blocks] : n \in 0 .. MaxBlocks }

LinesOf(header, blocks) ==
    LET acc[k \in 0 .. Len(blocks)] ==
            IF k = 0 THEN header
            ELSE acc[k - 1] \o blocks[k].lines
                 \o (IF blocks[k].closed THEN << << >> >> ELSE << >>)
    IN  acc[Len(blocks)]

TextOf(header, blocks) == join(LinesOf(header, blocks), << "\n" >>)

----------------------------------------------------------------------------
(* Loading a lesson: initialize() calls loadLesson(lessonId) once on the   *)
(* constructed application.  Each await of loadLesson is a point where the *)
(* function waits for the server; response is the reply under way.         *)

lessonsUrl ==
    "https://raw.githubusercontent.com/smarterGerman/listening-tool/main/lessons/lessons.json"

defaultLesson == "A1L01"

NoLessons == [id \in {} |-> 0]

NoLesson == [vttUrl |-> "", audioUrl |-> ""]

LessonIndex ==
    [id \in {"A1L01"} |-> [vttUrl |-> "A1L01.vtt", audioUrl |-> "A1L01.mp3"]]

OtherIndex ==
    [id \in {"A1L02"} |-> [vttUrl |-> "A1L02.vtt", audioUrl |-> "A1L02.mp3"]]

NoResponse ==
    [to |-> "none", status |-> "none", index |-> NoLessons,
     body |-> << >>, header |-> << >>, blocks |-> << >>]

(* fetch() rejects (networkError), the status is not 2xx (httpError), the  *)
(* body is not what json() accepts (badBody), or the reply is good.        *)
LessonsReplies ==
    { [NoResponse EXCEPT !.to = "lessons", !.status = st]
        : st \in {"networkError", "httpError", "badBody"} }
    \cup { [NoResponse EXCEPT !.to = "lessons", !.status = "ok", !.index = ix]
             : ix \in {LessonIndex, OtherIndex} }

CaptionReplies ==
    { [NoResponse EXCEPT !.to = "vtt", !.status = st]
        : st \in {"networkError", "httpError"} }
    \cup { [NoResponse EXCEPT !.to = "vtt", !.status = "ok",
                              !.body = TextOf(h, bs),
                              !.header = h, !.blocks = bs]
             : h \in Headers, bs \in BlockSeqs }

----------------------------------------------------------------------------
(* Initial state: the constructors have run and initialize() has loaded a  *)
(* lesson of n cues (loadLesson: setVTTCues, handleSentenceChange(0)).     *)

Constructed(n) ==
    [ vttCues |-> Lesson(n), currentCueIndex |-> 0, currentMode |-> defaultMode,
      currentQuestions |-> << >>, currentQuestionIndex |-> 0,
      autoPlayEnabled |-> FALSE, sessionScore |-> EmptyScore,
      results |-> << >>, statsShown |-> FALSE,
      playerCueIndex |-> 0, isPlaying |-> FALSE,
      prevBtnDisabled |-> FALSE, nextBtnDisabled |-> FALSE,
      paused |-> TRUE, currentTime |-> 0, mediaEvents |-> << >>,
      currentQuestion |-> NoQuestion, selectedAnswer |-> Null,
      isAnswered |-> FALSE,
      btnDisabled |-> [i \in ButtonIdx |-> FALSE],
      btnHidden |-> [i \in ButtonIdx |-> FALSE],
      timers |-> << >>, emitted |-> << >>,
      answeredSinceLoad |-> 0, endsSinceSeek |-> 0, quietSinceRestart |-> FALSE,
      quietSinceAnswer |-> FALSE, answersAwaitingAdvance |-> 0,
      currentSpeed |-> speeds[1], playbackRate |-> speeds[1] ]

loadLesson(n) ==
    LET s == updateNavigationButtons(Constructed(n))
    IN  handleSentenceChange(s, 0, CueAt(s, 0))

(* the application, the player and the quiz start in the state t *)
Starts(t) ==
    /\ vttCues = t.vttCues
    /\ currentCueIndex = t.currentCueIndex
    /\ currentMode = t.currentMode
    /\ currentQuestions = t.currentQuestions
    /\ currentQuestionIndex = t.currentQuestionIndex
    /\ autoPlayEnabled = t.autoPlayEnabled
    /\ sessionScore = t.sessionScore
    /\ results = t.results
    /\ statsShown = t.statsShown
    /\ playerCueIndex = t.playerCueIndex
    /\ isPlaying = t.isPlaying
    /\ prevBtnDisabled = t.prevBtnDisabled
    /\ nextBtnDisabled = t.nextBtnDisabled
    /\ paused = t.paused
    /\ currentTime = t.currentTime
    /\ mediaEvents = t.mediaEvents
    /\ currentQuestion = t.currentQuestion
    /\ selectedAnswer = t.selectedAnswer
    /\ isAnswered = t.isAnswered
    /\ btnDisabled = t.btnDisabled
    /\ btnHidden = t.btnHidden
    /\ timers = t.timers
    /\ emitted = << >>
    /\ answeredSinceLoad = t.answeredSinceLoad
    /\ endsSinceSeek = t.endsSinceSeek
    /\ quietSinceRestart = t.quietSinceRestart
    /\ quietSinceAnswer = t.quietSinceAnswer
    /\ answersAwaitingAdvance = t.answersAwaitingAdvance
    /\ currentSpeed = t.currentSpeed
    /\ playbackRate = t.playbackRate

(* the loader once loadLesson has completed *)
Loaded ==
    /\ loadPc = "loaded" /\ isLoading = FALSE /\ allLessons = LessonIndex
    /\ currentLesson = LessonIndex[defaultLesson]
    /\ audioSrc = LessonIndex[defaultLesson].audioUrl
    /\ requests = << lessonsUrl, LessonIndex[defaultLesson].vttUrl >>
    /\ response = NoResponse /\ calls = << >>

Init ==
    /\ \E n \in 1 .. MaxSegs : Starts(loadLesson(n))
    /\ Loaded
    /\ clockTime = 0 /\ formatted = << >>

----------------------------------------------------------------------------
(* User input.  Every input ends the quiet period that follows a restart. *)
(* New selections are capped by MaxTotal.  A click reaches its listener    *)
(* only if the button is neither disabled nor hidden; the keyboard calls   *)
(* the handlers whatever the state of the buttons.                         *)

User(t) ==
    Apply([t EXCEPT !.quietSinceRestart = FALSE,
                    !.quietSinceAnswer = NumEmitted(t.emitted, "answered") > 0])

CapOK == sessionScore.total < MaxTotal \/ isAnswered

(* The play button toggles playback only while its slider is at rest on   *)
(* the left (currentX < 10), that is while auto-play is not locked in.     *)
ClickPlay ==
    ~autoPlayEnabled /\ \E outcome \in PlayOutcomes : User(togglePlayback(St, outcome))

KeyPlayPause == \E outcome \in PlayOutcomes : User(togglePlayback(St, outcome))

KeyRepeatSentence ==
    \E outcome \in PlayOutcomes : User(playCurrentSentence(St, outcome))

ClickPrev == ~prevBtnDisabled /\ User(goToPreviousSentence(St))

ClickNext == ~nextBtnDisabled /\ User(goToNextSentence(St))

KeyPreviousSentence == User(previousSentence(St))

KeyNextSentence == User(nextSentence(St))

ChangeMode == \E m \in Modes : m # currentMode /\ User(changeMode(St, m))

ClickAnswer ==
    \E i \in ButtonIdx :
        /\ ~btnDisabled[i] /\ ~btnHidden[i]
        /\ CapOK
        /\ User(selectAnswer(St, i))

KeyAnswer == \E i \in ButtonIdx : CapOK /\ User(selectAnswer(St, i))

KeySubmit == User(submitAnswer(St))

ClickPrevQuestion == User(previousQuestion(St))

ClickNextQuestion == User(nextQuestion(St))

KeyToggleSpeed == User(toggleSpeed(St))

ClickSpeed == User(toggleSpeed(St))

SlideAutoPlay == \E enabled \in BOOLEAN : User([St EXCEPT !.autoPlayEnabled = enabled])

ClickRestart ==
    Apply([restart(St) EXCEPT !.quietSinceRestart = TRUE,
                              !.quietSinceAnswer = FALSE])

----------------------------------------------------------------------------
(* Timers.  A callback runs when its delay has elapsed: one scheduled      *)
(* earlier with a delay that is not longer runs first.                     *)

CanFire(k) ==
    /\ k \in 1 .. Len(timers)
    /\ \A j \in 1 .. (k - 1) : Delay(timers[j].kind) > Delay(timers[k].kind)

Without(seq, k) == SubSeq(seq, 1, k - 1) \o SubSeq(seq, k + 1, Len(seq))

Fired(k) == [St EXCEPT !.timers = Without(timers, k)]

FireAutoSubmit ==
    \E k \in 1 .. Len(timers) :
        /\ CanFire(k) /\ timers[k].kind = "submit"
        /\ Apply(submitAnswer(Fired(k)))

FireAutoAdvance ==
    \E k \in 1 .. Len(timers) :
        /\ CanFire(k) /\ timers[k].kind = "advance"
        /\ Apply(autoAdvance(Fired(k)))

FireAutoPlay ==
    \E k \in 1 .. Len(timers), outcome \in PlayOutcomes :
        /\ CanFire(k) /\ timers[k].kind = "autoplay"
        /\ Apply(playCurrentSentence(Fired(k), outcome))

----------------------------------------------------------------------------
(* Media element events *)

(* the queued 'play' / 'pause' event reaches its listener *)
MediaPlayEvent ==
    /\ mediaEvents # << >> /\ Head(mediaEvents) = "play"
    /\ Apply([St EXCEPT !.mediaEvents = Tail(@), !.isPlaying = TRUE])

MediaPauseEvent ==
    /\ mediaEvents # << >> /\ Head(mediaEvents) = "pause"
    /\ Apply([St EXCEPT !.mediaEvents = Tail(@), !.isPlaying = FALSE])

(* 'timeupdate' is delivered periodically during playback and once more   *)
(* after every pause and seek; the model lets it arrive at any moment.     *)
TimeUpdate == Apply(handleTimeUpdate(St))

(* playback advances by one tick *)
AudioAdvance ==
    /\ ~paused /\ currentTime < Duration(vttCues)
    /\ Apply([St EXCEPT !.currentTime = @ + 1])

(* end of the recording: the element pauses itself *)
MediaEnded ==
    /\ ~paused /\ currentTime = Duration(vttCues)
    /\ Apply(audioPause(St))

----------------------------------------------------------------------------

Next ==
    \/ ClickPlay
    \/ KeyPlayPause
    \/ KeyRepeatSentence
    \/ ClickPrev
    \/ ClickNext
    \/ KeyPreviousSentence
    \/ KeyNextSentence
    \/ ChangeMode
    \/ ClickAnswer
    \/ KeyAnswer
    \/ KeySubmit
    \/ ClickPrevQuestion
    \/ ClickNextQuestion
    \/ SlideAutoPlay
    \/ ClickRestart
    \/ FireAutoSubmit
    \/ FireAutoAdvance
    \/ FireAutoPlay
    \/ MediaPlayEvent
    \/ MediaPauseEvent
    \/ TimeUpdate
    \/ AudioAdvance
    \/ MediaEnded

Spec == Init /\ [][Next]_vars

(* the auto-advance callback can run: ENABLED <<FireAutoAdvance>>_vars     *)
AdvanceDue ==
    \E k \in 1 .. Len(timers) :
        /\ CanFire(k) /\ timers[k].kind = "advance"
        /\ \E t \in {autoAdvance(Fired(k))} :
              Len(t.timers) <= MaxTimers /\ Len(t.mediaEvents) <= MaxEvents

(* Timers whose delay has elapsed run and queued media events are          *)
(* delivered: the event loop does not starve them.  The last conjunct is   *)
(* WF_vars(FireAutoAdvance) with its enabling condition written out.       *)
LiveSpec ==
    /\ Spec
    /\ WF_vars(FireAutoSubmit) /\ WF_vars(FireAutoPlay)
    /\ WF_vars(MediaPlayEvent) /\ WF_vars(MediaPauseEvent)
    /\ ([]<>~AdvanceDue \/ []<><<FireAutoAdvance>>_vars)

(* The speed control.  The playback rate changes only how fast             *)
(* currentTime moves, which no step of Spec depends on, so the control is  *)
(* exercised together with playback and sentence navigation only.          *)
NextSpeed ==
    \/ KeyToggleSpeed
    \/ ClickSpeed
    \/ ClickPlay
    \/ KeyPlayPause
    \/ KeyRepeatSentence
    \/ ClickPrev
    \/ ClickNext
    \/ KeyPreviousSentence
    \/ KeyNextSentence
    \/ MediaPlayEvent
    \/ MediaPauseEvent
    \/ TimeUpdate
    \/ AudioAdvance
    \/ MediaEnded

SpecSpeed == Init /\ [][NextSpeed]_vars

----------------------------------------------------------------------------
(* LessonLoader and ListeningApp.loadLesson, step by step *)

(* setVTTCues; the player and the application hold the same array *)
setVTTCues(s, cues) ==
    updateNavigationButtons([s EXCEPT !.vttCues = cues, !.playerCueIndex = 0])

(* loadLesson up to its first await: loadAllLessons issues the request,    *)
(* unless a load is under way, in which case it hands back allLessons as   *)
(* it stands.                                                              *)
StartLoadLesson ==
    /\ loadPc = "init"
    /\ IF isLoading
       THEN IF defaultLesson \in DOMAIN allLessons
            THEN /\ currentLesson' = allLessons[defaultLesson]
                 /\ requests' = Append(requests, allLessons[defaultLesson].vttUrl)
                 /\ loadPc' = "awaitVTT"
            ELSE /\ loadPc' = "failed"
                 /\ UNCHANGED << currentLesson, requests >>
       ELSE /\ requests' = Append(requests, lessonsUrl)
            /\ loadPc' = "awaitLessons"
            /\ UNCHANGED currentLesson
    /\ isLoading' = TRUE
    /\ UNCHANGED << allLessons, audioSrc, response, calls, appVars, formatVars >>

(* the server answers the request for the lesson index *)
LessonsReply ==
    /\ loadPc = "awaitLessons" /\ response.to = "none"
    /\ response' \in LessonsReplies
    /\ UNCHANGED << loadPc, isLoading, allLessons, currentLesson, audioSrc,
                    requests, calls, appVars, formatVars >>

(* loadAllLessons resumes and loadLesson runs on to its second await, or   *)
(* the error passes through both catch blocks to initialize().  The        *)
(* response is consumed; what it carried stays on record.                  *)
LessonsDone ==
    /\ loadPc = "awaitLessons" /\ response.to = "lessons"
    /\ isLoading' = FALSE
    /\ response' = [response EXCEPT !.to = "none"]
    /\ IF response.status = "ok"
       THEN /\ allLessons' = response.index
            /\ IF defaultLesson \in DOMAIN response.index
               THEN /\ currentLesson' = response.index[defaultLesson]
                    /\ requests' =
                         Append(requests, response.index[defaultLesson].vttUrl)
                    /\ loadPc' = "awaitVTT"
               ELSE /\ loadPc' = "failed"
                    /\ UNCHANGED << currentLesson, requests >>
       ELSE /\ loadPc' = "failed"
            /\ UNCHANGED << allLessons, currentLesson, requests >>
    /\ UNCHANGED << audioSrc, calls, appVars, formatVars >>

(* the server answers the request for the caption file *)
CaptionReply ==
    /\ loadPc = "awaitVTT" /\ response.to = "none"
    /\ response' \in CaptionReplies
    /\ UNCHANGED << loadPc, isLoading, allLessons, currentLesson, audioSrc,
                    requests, calls, appVars, formatVars >>

(* loadVTTFromUrl resumes: the text is parsed and loadLesson builds the    *)
(* lesson, or the error passes on to initialize().  The response is        *)
(* consumed; what it carried stays on record so that what was built can be *)
(* related to the text it was built from.                                  *)
buildLesson(s, cues) ==
    LET s1 == setVTTCues([s EXCEPT !.vttCues = cues, !.currentCueIndex = 0],
                         cues)
    IN  handleSentenceChange(s1, 0, CueAt(s1, 0))

CaptionDone ==
    /\ loadPc = "awaitVTT" /\ response.to = "vtt"
    /\ response' = [response EXCEPT !.to = "none"]
    /\ IF response.status = "ok"
       THEN /\ \E t \in {buildLesson(St, parseVTTWithQuestions(response.body))} :
                  Install(t)
            /\ audioSrc' = currentLesson.audioUrl
            /\ loadPc' = "loaded"
       ELSE /\ loadPc' = "failed"
            /\ UNCHANGED << audioSrc, appVars >>
    /\ UNCHANGED << isLoading, allLessons, currentLesson, requests, calls,
                    formatVars >>

NextLoad ==
    \/ StartLoadLesson
    \/ LessonsReply
    \/ LessonsDone
    \/ CaptionReply
    \/ CaptionDone

InitLoad ==
    /\ Starts(Constructed(0))
    /\ loadPc = "init" /\ isLoading = FALSE /\ allLessons = NoLessons
    /\ currentLesson = NoLesson /\ audioSrc = "" /\ requests = << >>
    /\ response = NoResponse /\ calls = << >>
    /\ clockTime = 0 /\ formatted = << >>

SpecLoad == InitLoad /\ [][NextLoad]_vars

----------------------------------------------------------------------------
(* formatTime, the function updateProgress shows the position with: the    *)
(* position is drawn from times of up to MaxMinutes minutes and from       *)
(* positions around one and ten hours.                                     *)

MaxMinutes == 2

ClockTimes ==
    { m * 60000 + s * 1000 + f :
        m \in (0 .. MaxMinutes) \cup {59, 60, 61, 599, 600},
        s \in 0 .. 59,
        f \in {0, 1, 500, 999} }

FormatTime ==
    /\ formatted = << >>
    /\ formatted' = formatTime(clockTime)
    /\ UNCHANGED << clockTime, appVars, loaderVars >>

InitFormat ==
    /\ \E n \in 1 .. MaxSegs : Starts(loadLesson(n))
    /\ Loaded
    /\ clockTime \in ClockTimes /\ formatted = << >>

NextFormat == FormatTime

SpecFormat == InitFormat /\ [][NextFormat]_vars

TypeOK ==
    /\ currentCueIndex \in 0 .. (Len(vttCues) - 1)
    /\ playerCueIndex \in 0 .. (Len(vttCues) - 1)
    /\ selectedAnswer \in {Null} \cup ButtonIdx
    /\ sessionScore.total <= MaxTotal
    /\ Len(timers) <= MaxTimers
    /\ Len(mediaEvents) <= MaxEvents
    /\ endsSinceSeek <= MaxEnds

----------------------------------------------------------------------------
(* Properties *)

LastIndex == Len(vttCues) - 1

NextSentenceRequest == KeyNextSentence \/ ClickNext

SelectAnswerCall == ClickAnswer \/ KeyAnswer

(* C1: for every crossing of the current segment's end during playback the *)
(* sentence-ended event is raised exactly once; time updates delivered     *)
(* after handleTimeUpdate has paused playback do not raise it again.  The  *)
(* position passes the end of the current cue at most once between seeks.  *)
C1_SentenceEndOncePerCrossing == endsSinceSeek <= 1

(* C2: while the onNext guard returns false (current question not          *)
(* answered) a next-sentence request by keyboard or next button changes    *)
(* neither currentCueIndex nor raises a sentence-change notification.      *)
C2_GuardVetoesNext ==
    [][(~isAnswered /\ NextSentenceRequest)
         => /\ currentCueIndex' = currentCueIndex
            /\ NumEmitted(emitted', "sentenceChange") = 0]_vars

(* C3: the auto-advance callback scheduled by handleAnswer changes neither *)
(* currentCueIndex nor currentQuestionIndex when, at the moment it fires,  *)
(* the segment index or the question index differ from the ones at which   *)
(* the answer was submitted.                                               *)
C3_StaleAdvanceIsNoOp ==
    [][\A k \in 1 .. Len(timers) :
          ( /\ CanFire(k) /\ timers[k].kind = "advance"
            /\ (timers[k].cue # currentCueIndex \/ timers[k].q # currentQuestionIndex)
            /\ Apply(autoAdvance(Fired(k))) )
          => /\ currentCueIndex' = currentCueIndex
             /\ currentQuestionIndex' = currentQuestionIndex]_vars

(* C4: after restart(), as long as no user input follows, no callback      *)
(* scheduled before the restart takes effect: the segment index stays 0,   *)
(* the session score stays empty and the audio stays paused.               *)
C4_RestartCancelsTimers ==
    quietSinceRestart =>
        /\ currentCueIndex = 0
        /\ sessionScore.correct = 0 /\ sessionScore.total = 0
        /\ paused

C6_OnlyHostSubmitScores ==
    [][(isAnswered' # isAnswered /\ isAnswered') \/ sessionScore'.total > sessionScore.total
         => KeySubmit]_vars

(* C6 amended: selectAnswer(i) on a loaded, unanswered question records    *)
(* the selection and schedules an auto-submit; the call itself leaves the  *)
(* answered flag, the score and the results unchanged.  They change only   *)
(* when submitAnswer() runs, called by the host or by the auto-submit      *)
(* timer.                                                                  *)
C6_SelectOnlyRecords ==
    [][/\ SelectAnswerCall =>
            /\ isAnswered' = isAnswered
            /\ sessionScore' = sessionScore
            /\ results' = results
            /\ NumEmitted(emitted', "answered") = 0
       /\ (SelectAnswerCall /\ ~isAnswered /\ currentQuestion # NoQuestion) =>
            /\ selectedAnswer' = emitted'[1].arg
            /\ timers' = Append(timers, [kind |-> "submit", cue |-> 0, q |-> 0])
       /\ (isAnswered' /\ ~isAnswered) \/ sessionScore'.total > sessionScore.total
            => KeySubmit \/ FireAutoSubmit]_vars

C6_Witness ==
    /\ NumEmitted(emitted, "selectAnswer") = 1
    /\ currentQuestion # NoQuestion /\ ~isAnswered
    /\ selectedAnswer # Null
    /\ Len(timers) = 1 /\ timers[1].kind = "submit"
    /\ sessionScore.total = 0

(* C7: once the current question is answered, a selectAnswer call leaves   *)
(* selectedAnswer unchanged; it stays as it is until the next loadQuestion *)
(* clears the answered flag.                                               *)
C7_SelectionLocked ==
    [][isAnswered =>
         /\ SelectAnswerCall => selectedAnswer' = selectedAnswer
         /\ isAnswered' => selectedAnswer' = selectedAnswer]_vars

C7_Witness ==
    /\ isAnswered /\ selectedAnswer # Null
    /\ NumEmitted(emitted, "selectAnswer") = 1
    /\ emitted[1].arg # selectedAnswer

(* C8: the score counters (correct, total and every per-mode correct and   *)
(* total) never decrease in a step other than restart().                   *)
ScoreNonDecreasing ==
    /\ sessionScore'.total >= sessionScore.total
    /\ sessionScore'.correct >= sessionScore.correct
    /\ \A m \in DOMAIN sessionScore.byMode :
          /\ m \in DOMAIN sessionScore'.byMode
          /\ sessionScore'.byMode[m].total >= sessionScore.byMode[m].total
          /\ sessionScore'.byMode[m].correct >= sessionScore.byMode[m].correct

C8_ScoreMonotone == [][ClickRestart \/ ScoreNonDecreasing]_vars

C8_Witness ==
    /\ sessionScore.total >= 1 /\ sessionScore.correct >= 1
    /\ currentMode # defaultMode
    /\ defaultMode \in DOMAIN sessionScore.byMode
    /\ NumEmitted(emitted, "sentenceChange") = 1

(* C9: a next-sentence request at the last index leaves currentCueIndex    *)
(* unchanged and signals lesson-complete (results shown) instead of a      *)
(* sentence-change; the index never wraps to 0.                            *)
C9_NextAtLastIndex ==
    [][(currentCueIndex = LastIndex /\ NextSentenceRequest)
         => /\ currentCueIndex' = currentCueIndex
            /\ playerCueIndex' = playerCueIndex
            /\ NumEmitted(emitted', "lessonComplete") = 1
            /\ NumEmitted(emitted', "sentenceChange") = 0
            /\ statsShown']_vars

C9_Witness ==
    /\ Len(vttCues) > 1 /\ currentCueIndex = LastIndex
    /\ emitted = << [type |-> "lessonComplete", arg |-> 0] >>
    /\ statsShown
    /\ results = << >> /\ timers = << >>

PreviousSentenceRequest == KeyPreviousSentence \/ ClickPrev

(* C11: a previous-sentence request at index 0 changes no index and raises *)
(* no notification; at index i > 0 it decrements the index by exactly one, *)
(* sets the playback position to segments[i-1].start and raises exactly    *)
(* one sentence-change notification, carrying i-1.                         *)
C11_PreviousStepsBackByOne ==
    [][PreviousSentenceRequest =>
         IF currentCueIndex = 0
         THEN /\ currentCueIndex' = 0 /\ playerCueIndex' = playerCueIndex
              /\ currentTime' = currentTime
              /\ emitted' = << >>
         ELSE /\ currentCueIndex' = currentCueIndex - 1
              /\ playerCueIndex' = currentCueIndex - 1
              /\ currentTime' = vttCues[currentCueIndex].start
              /\ NumEmitted(emitted', "sentenceChange") = 1
              /\ \A k \in 1 .. Len(emitted') :
                    emitted'[k].type = "sentenceChange"
                        => emitted'[k].arg = currentCueIndex - 1]_vars

C11_Witness ==
    /\ Len(vttCues) > 1
    /\ currentCueIndex = 0 /\ playerCueIndex = 0
    /\ currentTime = vttCues[1].start
    /\ NumEmitted(emitted, "sentenceChange") = 1
    /\ emitted[1] = [type |-> "sentenceChange", arg |-> 0]

(* C12: once a lesson of N >= 1 segments is loaded, the segment index of   *)
(* the app and of the player is an integer in [0, N-1], or N for a         *)
(* finished lesson, whatever next / previous / auto-advance / restart /    *)
(* mode-change events occurred.                                            *)
C12_IndexInRange ==
    /\ Len(vttCues) >= 1
    /\ currentCueIndex \in 0 .. Len(vttCues)
    /\ playerCueIndex \in 0 .. Len(vttCues)

C12_Witness ==
    /\ Len(vttCues) > 1 /\ currentCueIndex = LastIndex
    /\ statsShown /\ results # << >>
    /\ currentMode # defaultMode
    /\ NumEmitted(emitted, "lessonComplete") = 1

(* C13: restart() from any reachable state resets the session score to     *)
(* correct 0, total 0 with an empty per-mode breakdown, resets the segment *)
(* index of the app and of the player to 0, and leaves the parsed segment  *)
(* list as it was.                                                         *)
C13_RestartResets ==
    [][ClickRestart =>
         /\ sessionScore' = EmptyScore
         /\ DOMAIN sessionScore'.byMode = {}
         /\ currentCueIndex' = 0 /\ playerCueIndex' = 0
         /\ vttCues' = vttCues]_vars

C13_Witness ==
    /\ quietSinceRestart
    /\ sessionScore = EmptyScore /\ results = << >>
    /\ currentCueIndex = 0 /\ playerCueIndex = 0
    /\ Len(timers) = 1 /\ timers[1].kind = "advance" /\ timers[1].cue = 1

SegmentOrModeChange == ChangeMode \/ NumEmitted(emitted', "sentenceChange") > 0

(* C14: after every segment change or mode change the filtered question    *)
(* list is the order-preserving subsequence of the current segment's       *)
(* questions whose type equals the active mode, the question index is 0    *)
(* when that list is non-empty, and the answered flag is cleared.          *)
C14_QuestionsReloaded ==
    [][SegmentOrModeChange =>
         /\ currentQuestions' =
                filterQuestionsByMode(currentMode',
                                      vttCues'[currentCueIndex' + 1].questions)
         /\ currentQuestions' # << >> => currentQuestionIndex' = 0
         /\ ~isAnswered']_vars

(* C15: switching to a mode for which the current segment has no matching  *)
(* question yields an empty filtered list and the no-questions state (the  *)
(* neutral message, all answer buttons hidden, no question loaded by the   *)
(* step) and leaves the session score and the results unchanged.           *)
C15_EmptyModeIsNeutral ==
    [][( /\ ChangeMode
         /\ filterQuestionsByMode(currentMode',
                                  vttCues[currentCueIndex + 1].questions) = << >> )
         => /\ currentQuestions' = << >>
            /\ emitted' = << [type |-> "noQuestions", arg |-> 0] >>
            /\ \A i \in ButtonIdx : btnHidden'[i]
            /\ sessionScore' = sessionScore
            /\ results' = results]_vars

C15_Witness ==
    /\ currentCueIndex = 1 /\ currentMode = "comprehension"
    /\ currentQuestions = << >>
    /\ emitted = << [type |-> "noQuestions", arg |-> 0] >>
    /\ sessionScore.total = 1 /\ Len(results) = 1

NoQuestionsState == currentQuestions = << >>

SubmitAnswerCall == KeySubmit \/ FireAutoSubmit

(* C16: in the no-questions state (empty filtered list for the current     *)
(* segment and mode) selectAnswer and submitAnswer, keyboard shortcuts     *)
(* included, record no selection, raise no answered notification and leave *)
(* the score unchanged; submitAnswer with no selection changes nothing.    *)
C16_NoOpOutsideValidState ==
    [][/\ (NoQuestionsState /\ (SelectAnswerCall \/ SubmitAnswerCall))
            => /\ selectedAnswer' = selectedAnswer
               /\ NumEmitted(emitted', "answered") = 0
               /\ sessionScore' = sessionScore
       /\ (SubmitAnswerCall /\ selectedAnswer = Null)
            => /\ isAnswered' = isAnswered
               /\ NumEmitted(emitted', "answered") = 0
               /\ sessionScore' = sessionScore]_vars

IndexChangingInput ==
    \/ ClickPrev \/ ClickNext \/ KeyPreviousSentence \/ KeyNextSentence
    \/ ChangeMode \/ ClickPrevQuestion \/ ClickNextQuestion \/ ClickRestart

NumAdvanceTimers(ts) == Cardinality({k \in 1 .. Len(ts) : ts[k].kind = "advance"})

(* C18: every automatic advance is preceded by an answered notification    *)
(* for the question that was current when it was scheduled.  The segment   *)
(* or question index changes without user input only in the auto-advance   *)
(* callback; that callback is scheduled only by a step that raises the     *)
(* answered notification, for the indices current in that step; and each   *)
(* run of the callback uses up one earlier answered notification.          *)
C18_AnsweredPrecedesAdvance ==
    [][/\ (currentCueIndex' # currentCueIndex
            \/ currentQuestionIndex' # currentQuestionIndex)
            => (IndexChangingInput \/ FireAutoAdvance)
       /\ NumAdvanceTimers(timers') > NumAdvanceTimers(timers)
            => /\ NumEmitted(emitted', "answered") = 1
               /\ isAnswered' /\ ~isAnswered
               /\ currentQuestion' = currentQuestion
               /\ timers'[Len(timers')] = [kind |-> "advance",
                                           cue |-> currentCueIndex,
                                           q |-> currentQuestionIndex]
       /\ FireAutoAdvance => answersAwaitingAdvance >= 1]_vars

C18_Witness ==
    /\ emitted # << >> /\ emitted[1].type = "autoAdvance"
    /\ NumEmitted(emitted, "loadQuestion") = 1
    /\ currentQuestionIndex = 1 /\ ~isAnswered
    /\ Len(results) = 1 /\ answersAwaitingAdvance = 0

(* C19: the segment-changed notification for segment i precedes the load   *)
(* of a question of segment i.  Whenever a question is loaded into the     *)
(* quiz controller it belongs to the segment at the current segment index, *)
(* and a sentence-change raised in the same step came first and carried    *)
(* that index.                                                             *)
C19_SegmentChangePrecedesLoad ==
    \A k \in 1 .. Len(emitted) :
        emitted[k].type = "loadQuestion" =>
            /\ \E n \in 1 .. Len(vttCues[currentCueIndex + 1].questions) :
                  vttCues[currentCueIndex + 1].questions[n].id = emitted[k].arg
            /\ currentQuestion.id = emitted[k].arg
            /\ \A j \in 1 .. Len(emitted) :
                  emitted[j].type = "sentenceChange"
                      => j < k /\ emitted[j].arg = currentCueIndex

C19_Witness ==
    /\ NumEmitted(emitted, "sentenceChange") = 1
    /\ NumEmitted(emitted, "loadQuestion") = 1
    /\ currentCueIndex = 1 /\ currentQuestion.id = 11

ToggleSpeedCall == KeyToggleSpeed \/ ClickSpeed

(* C20: toggleSpeed() cycles the playback rate 1.0 -> 0.75 -> 0.5 -> 1.0:  *)
(* each call moves to the next entry and wraps after the last, three       *)
(* consecutive calls restore the rate, and after each call the media       *)
(* element's playbackRate equals currentSpeed.                             *)
C20_SpeedCycle ==
    /\ [](/\ currentSpeed \in {100, 75, 50}
          /\ playbackRate = currentSpeed
          /\ toggleSpeed(toggleSpeed(toggleSpeed(St))).currentSpeed = currentSpeed
          /\ toggleSpeed(toggleSpeed(toggleSpeed(St))).playbackRate = currentSpeed)
    /\ [][ToggleSpeedCall =>
            /\ currentSpeed' = CASE currentSpeed = 100 -> 75
                                  [] currentSpeed = 75 -> 50
                                  [] currentSpeed = 50 -> 100
            /\ playbackRate' = currentSpeed'
            /\ currentTime' = currentTime /\ paused' = paused
            /\ playerCueIndex' = playerCueIndex]_vars

C20_Witness ==
    /\ currentSpeed = 50 /\ playbackRate = 50
    /\ ~paused /\ isPlaying /\ playerCueIndex = 1

PlayRequestRejected == NumEmitted(emitted', "playRejected") > 0

(* C21: when the media element rejects a play request made by              *)
(* playCurrentSentence, the playback state stays as it was before the      *)
(* request (paused, isPlaying false, no 'play' event under way), the       *)
(* segment index and the quiz state are unchanged, and a later request     *)
(* that the element accepts starts playback.                               *)
C21_PlayRejectionIsHarmless ==
    [][PlayRequestRejected =>
         /\ paused' = paused
         /\ isPlaying' = isPlaying
         /\ mediaEvents' = mediaEvents
         /\ currentCueIndex' = currentCueIndex
         /\ playerCueIndex' = playerCueIndex
         /\ currentQuestions' = currentQuestions
         /\ currentQuestionIndex' = currentQuestionIndex
         /\ currentQuestion' = currentQuestion
         /\ selectedAnswer' = selectedAnswer
         /\ isAnswered' = isAnswered
         /\ sessionScore' = sessionScore
         /\ results' = results
         /\ paused' => ~(playCurrentSentence(St, "started").paused)']_vars

----------------------------------------------------------------------------
(* Properties of the caption parser, stated on the lesson that loadLesson  *)
(* has built from a caption file.                                          *)

(* loadLesson has run to its end on the caption text in response *)
LessonBuilt == loadPc = "loaded" /\ response.status = "ok"

(* the kinds of marker block whose marker line does not denote two valid   *)
(* times with end >= start                                                 *)
DefectiveKinds == {"reversed", "garbled", "badFraction"}

WithoutDefective(blocks) ==
    SelectSeq(blocks, LAMBDA b : b.kind \notin DefectiveKinds)

(* C22: a marker line that does not parse into two valid times with        *)
(* end >= start produces no segment: the segments are those of the text    *)
(* without the defective blocks, and every segment has end >= start.       *)
C22_DefectiveMarkerIsDropped ==
    LessonBuilt =>
        /\ \A k \in 1 .. Len(vttCues) : vttCues[k].end >= vttCues[k].start
        /\ vttCues = parseVTTWithQuestions(
                         TextOf(response.header,
                                WithoutDefective(response.blocks)))

(* the kinds of marker block with a valid marker line and a transcript on  *)
(* the line after it                                                       *)
WellFormedKinds == {"plain", "asked", "numbered", "twoLines", "splitJson"}

AllWellFormed(blocks) ==
    \A k \in 1 .. Len(blocks) : blocks[k].kind \in WellFormedKinds

(* C23: a caption text of K well-formed marker blocks, with or without a   *)
(* header, yields exactly K segments, the j-th with the times of the j-th  *)
(* block: input order, nothing sorted, nothing left out as a duplicate.    *)
C23_WellFormedBlocksInOrder ==
    LessonBuilt /\ AllWellFormed(response.blocks) =>
        /\ Len(vttCues) = Len(response.blocks)
        /\ \A j \in 1 .. Len(vttCues) :
              /\ vttCues[j].start = response.blocks[j].start
              /\ vttCues[j].end = response.blocks[j].end

(* a header and two blocks, the later one first *)
C23_Witness ==
    /\ LessonBuilt /\ response.header # << >>
    /\ response.blocks = << TwoLinesBlock, PlainBlock >>
    /\ Len(vttCues) = 2 /\ vttCues[1].start > vttCues[2].start

(* the same block twice *)
C23_WitnessRepeated ==
    /\ LessonBuilt
    /\ response.blocks = << AskedBlock, AskedBlock >>
    /\ Len(vttCues) = 2 /\ vttCues[1] = vttCues[2]

(* the kinds of marker block with a valid marker line and no transcript:   *)
(* a blank line, or nothing but a questions block, follows the marker      *)
EmptyTextKinds == {"noText", "jsonOnly"}

WithTranscript(blocks) ==
    SelectSeq(blocks, LAMBDA b : b.kind \notin EmptyTextKinds)

(* C24: every segment has a non-empty text; a marker block whose text      *)
(* comes out empty, with a questions block or without, yields no segment,  *)
(* so that among well-formed blocks only those are missing.                *)
C24_EmptyTranscriptIsDropped ==
    LessonBuilt =>
        /\ \A k \in 1 .. Len(vttCues) : vttCues[k].text # << >>
        /\ AllWellFormed(WithTranscript(response.blocks)) =>
              /\ Len(vttCues) = Len(WithTranscript(response.blocks))
              /\ \A j \in 1 .. Len(vttCues) :
                    vttCues[j].start = WithTranscript(response.blocks)[j].start

(* a block holding only a questions block, then a well-formed one *)
C24_Witness ==
    /\ LessonBuilt
    /\ response.blocks = << JsonOnlyBlock, PlainBlock >>
    /\ Len(vttCues) = 1 /\ vttCues[1].start = PlainBlock.start

(* a block without any text, alone in the file *)
C24_WitnessBlank ==
    /\ LessonBuilt
    /\ response.blocks = << NoTextBlock >>
    /\ vttCues = << >>

(* the block as it would read with a questions block that decodes *)
Repaired(b) == IF b.kind = "badJson" THEN BadJsonFixedBlock ELSE b

RepairedBlocks(blocks) == [k \in 1 .. Len(blocks) |-> Repaired(blocks[k])]

(* the segments of the text in which every questions block decodes *)
CuesIfRepaired ==
    parseVTTWithQuestions(TextOf(response.header, RepairedBlocks(response.blocks)))

(* C25: a questions block that fails to decode leaves its segment in the   *)
(* list with its transcript and an empty question list; all other          *)
(* segments are what they are when the block decodes.                      *)
C25_UndecodableQuestionsKeepSegment ==
    LessonBuilt =>
        \E repaired \in {CuesIfRepaired} :
            /\ Len(vttCues) = Len(repaired)
            /\ \A k \in 1 .. Len(vttCues) :
                  IF repaired[k].start = BadJsonBlock.start
                  THEN /\ repaired[k].questions # << >>
                       /\ vttCues[k] = [repaired[k] EXCEPT !.questions = << >>]
                  ELSE vttCues[k] = repaired[k]

(* an undecodable block followed by a block with questions *)
C25_Witness ==
    /\ LessonBuilt
    /\ response.blocks = << BadJsonBlock, AskedBlock >>
    /\ Len(vttCues) = 2
    /\ vttCues[1].text = << "a", "b" >> /\ vttCues[1].questions = << >>
    /\ Len(vttCues[2].questions) = 2
    /\ Len(CuesIfRepaired[1].questions) = 1

(* the block with its questions block written on the transcript's line *)
OnOneLine(b) == IF b.kind = "splitJson" THEN SameLineJsonBlock ELSE b

(* C26: a questions block on the lines after the transcript is gathered    *)
(* until its braces balance and decoded as one unit: the segments are      *)
(* those of the text with the same block on the transcript's own line.     *)
C26_MultiLineQuestionsBlock ==
    LessonBuilt =>
        vttCues = parseVTTWithQuestions(
                     TextOf(response.header,
                            [k \in 1 .. Len(response.blocks) |->
                                OnOneLine(response.blocks[k])]))

(* The transcript lines of a block as the rule reads them: the non-blank   *)
(* lines after the marker line, up to a blank line, a marker line or the   *)
(* questions block, each without the white space around it.                *)
MarkerAt(b) == Least({k \in 1 .. Len(b.lines) : includes(b.lines[k], Arrow)})

Transcript(b) ==
    LET Stops(k) == \/ trim(b.lines[k]) = << >>
                    \/ includes(b.lines[k], Arrow)
                    \/ includes(b.lines[k], Sentinel)
        part == [k \in 1 .. Len(b.lines) |->
                    IF k <= MarkerAt(b)
                       \/ \E j \in (MarkerAt(b) + 1) .. (k - 1) : Stops(j)
                    THEN << >>
                    ELSE IF includes(b.lines[k], Sentinel)
                    THEN trim(substring(b.lines[k], 0,
                                        strIndexOf(b.lines[k], Sentinel)))
                    ELSE IF includes(b.lines[k], Arrow) THEN << >>
                    ELSE trim(b.lines[k])]
    IN  SelectSeq(part, LAMBDA line : line # << >>)

NoDefective(blocks) ==
    \A k \in 1 .. Len(blocks) : blocks[k].kind \notin DefectiveKinds

(* C27: the transcript of a segment is made of all the non-blank lines     *)
(* after its marker line up to a blank line, the next marker line or the   *)
(* questions block; a marker line followed at once by another marker line  *)
(* has no transcript and is dropped, and no marker line is ever taken as   *)
(* transcript text.                                                        *)
C27_TranscriptLines ==
    LessonBuilt /\ NoDefective(response.blocks) =>
        \E kept \in {SelectSeq(response.blocks,
                                LAMBDA b : Transcript(b) # << >>)} :
            /\ Len(vttCues) = Len(kept)
            /\ \A j \in 1 .. Len(vttCues) :
                  /\ vttCues[j].start = kept[j].start
                  /\ ~includes(vttCues[j].text, Arrow)
                  /\ \A i \in 1 .. Len(Transcript(kept[j])) :
                        includes(vttCues[j].text, Transcript(kept[j])[i])

----------------------------------------------------------------------------
(* Properties of loadLesson *)

(* loadLesson has rejected because a fetch failed or answered non-2xx *)
FetchFailed ==
    loadPc = "failed" /\ response.status \in {"networkError", "httpError"}

TimesRequested(url) ==
    Cardinality({k \in 1 .. Len(requests) : requests[k] = url})

(* C28: when the fetch of the lesson index or of the caption file fails    *)
(* or answers non-2xx, loadLesson rejects having sent one request to that  *)
(* URL and built nothing: currentLesson, the segment list, the segment     *)
(* index, the player's cue list and index and the audio source are what    *)
(* they were before the call.                                              *)
C28_FailedFetchBuildsNothing ==
    FetchFailed =>
        /\ \A k \in 1 .. Len(requests) : TimesRequested(requests[k]) = 1
        /\ currentLesson = NoLesson
        /\ vttCues = << >> /\ currentCueIndex = 0 /\ playerCueIndex = 0
        /\ audioSrc = ""

----------------------------------------------------------------------------
(* Properties of formatTime *)

(* C29: the M:SS text formatTime makes of a time t >= 0, read back by      *)
(* parseTimeToSeconds, is floor(t): the whole seconds of t.                *)
C29_FormatParseRoundTrip ==
    formatted # << >> =>
        parseTimeToSeconds(formatted) = (clockTime \div 1000) * 1000

(* 1:01:01.5 is shown as 61:01 *)
C29_Witness ==
    /\ clockTime = 3661500
    /\ formatted = << "6", "1", ":", "0", "1" >>
    /\ parseTimeToSeconds(formatted) = 3661000

----------------------------------------------------------------------------
(* Properties of the playback clock *)

(* the greatest i with segments[i].start <= t, clamped to [0, N-1]; the    *)
(* index is 0-based                                                        *)
segmentForTime(segments, t) ==
    LET begun == {i \in 0 .. (Len(segments) - 1) : segments[i + 1].start <= t}
    IN  IF begun = {} THEN 0
        ELSE CHOOSE i \in begun : \A j \in begun : j <= i

(* C30: the playback clock maps the playback time t to the segment index   *)
(* segmentForTime(t), the greatest i with segments[i].start <= t, clamped  *)
(* to [0, N-1]: the player's segment index is that index for the current   *)
(* playback time whenever a time update may be handled.                    *)
C30_SegmentIndexFollowsTime ==
    Len(vttCues) > 0 =>
        /\ playerCueIndex \in 0 .. (Len(vttCues) - 1)
        /\ playerCueIndex = segmentForTime(vttCues, currentTime)

----------------------------------------------------------------------------
(* Properties of the question list *)

(* C31: nextQuestion and previousQuestion move currentQuestionIndex by one *)
(* within the filtered list and change nothing at its ends; whenever the   *)
(* filtered list is non-empty, currentQuestionIndex is in                  *)
(* [0, len(filtered) - 1] and the loaded question is                       *)
(* filtered[currentQuestionIndex].                                         *)
C31_QuestionIndexWithinList ==
    /\ [](currentQuestions # << >> =>
            /\ currentQuestionIndex \in 0 .. (Len(currentQuestions) - 1)
            /\ currentQuestion = currentQuestions[currentQuestionIndex + 1])
    /\ [][ClickNextQuestion =>
            IF currentQuestionIndex < Len(currentQuestions) - 1
            THEN currentQuestionIndex' = currentQuestionIndex + 1
            ELSE /\ currentQuestionIndex' = currentQuestionIndex
                 /\ currentQuestion' = currentQuestion
                 /\ currentQuestions' = currentQuestions]_vars
    /\ [][ClickPrevQuestion =>
            IF currentQuestionIndex > 0 /\ currentQuestions # << >>
            THEN currentQuestionIndex' = currentQuestionIndex - 1
            ELSE /\ currentQuestionIndex' = currentQuestionIndex
                 /\ currentQuestion' = currentQuestion
                 /\ currentQuestions' = currentQuestions]_vars

(* the second question of the list, reached without answering the first *)
C31_Witness ==
    /\ Len(currentQuestions) = 2 /\ currentQuestionIndex = 1
    /\ currentQuestion = currentQuestions[2]
    /\ ~isAnswered /\ sessionScore.total = 0

----------------------------------------------------------------------------
(* Properties of the two segment indices *)

(* C32: the app's currentCueIndex and the audio player's currentCueIndex   *)
(* are equal in every reachable state, whatever next and previous requests *)
(* (button or keyboard), auto-advances, mode changes and restarts follow   *)
(* the lesson load.                                                        *)
C32_IndicesAgree == currentCueIndex = playerCueIndex

(* both indices have moved on, by an auto-advance after an answer *)
C32_Witness ==
    /\ currentCueIndex = 1 /\ playerCueIndex = 1
    /\ sessionScore.total = 1 /\ NumEmitted(emitted, "sentenceChange") = 1
    /\ NumEmitted(emitted, "autoAdvance") = 1

----------------------------------------------------------------------------
(* The quiz driven from the keyboard while the audio stays paused, with    *)
(* room for MaxScored answers in a session.                                *)

MaxScored == 2

ScoreCapOK == sessionScore.total < MaxScored \/ isAnswered

KeyAnswerScored == \E i \in ButtonIdx : ScoreCapOK /\ User(selectAnswer(St, i))

NextScore ==
    \/ KeyAnswerScored
    \/ KeySubmit
    \/ FireAutoSubmit
    \/ FireAutoAdvance
    \/ ClickPrevQuestion
    \/ ClickNextQuestion
    \/ KeyPreviousSentence
    \/ KeyNextSentence
    \/ ChangeMode
    \/ ClickRestart

SpecScore == Init /\ [][NextScore]_vars

(* all questions of the lesson *)
LessonQuestions ==
    UNION {{vttCues[k].questions[j].id : j \in 1 .. Len(vttCues[k].questions)} :
             k \in 1 .. Len(vttCues)}

(* C33: between two restarts no question is scored more than once: the     *)
(* recorded results name every question at most once, and                  *)
(* sessionScore.total never exceeds the number of distinct questions of    *)
(* the lesson.                                                             *)
C33_NoQuestionScoredTwice ==
    /\ \A j, k \in 1 .. Len(results) :
          j # k => results[j].question # results[k].question
    /\ sessionScore.total <= Cardinality(LessonQuestions)

(* C34: selectedAnswer is always either null or a valid index into the     *)
(* options of the currently loaded question: a selection beyond the        *)
(* question's options (key 4 on a two-option question) is never recorded.  *)
C34_SelectionWithinOptions ==
    selectedAnswer # Null =>
        /\ currentQuestion # NoQuestion
        /\ selectedAnswer \in 0 .. (currentQuestion.nopts - 1)

(* onSentenceEnd has enabled the answers of the loaded question:           *)
(* loadQuestion disables every option button, enableAnswers alone enables  *)
(* them again.                                                             *)
AnswersEnabled == \E i \in ButtonIdx : ~btnHidden[i] /\ ~btnDisabled[i]

(* C35: a question can be answered only after its segment's audio has      *)
(* reached the segment end since the question was loaded: no step records  *)
(* a selection while the answers have not been enabled.                    *)
C35_NoSelectionBeforeSentenceEnd ==
    [][(selectedAnswer' # Null /\ selectedAnswer' # selectedAnswer)
          => AnswersEnabled]_vars

(* the sum of one counter over the modes of the score *)
RECURSIVE SumByMode(_, _, _)
SumByMode(score, field, modes) ==
    IF modes = {} THEN 0
    ELSE LET m == CHOOSE x \in modes : TRUE
         IN  score.byMode[m][field] + SumByMode(score, field, modes \ {m})

(* C36: the score is consistent: correct <= total overall and in every     *)
(* mode, the per-mode totals add up to total, the per-mode corrects add up *)
(* to correct, and there are as many recorded results as total.            *)
C36_ScoreConsistent ==
    /\ sessionScore.correct <= sessionScore.total
    /\ \A m \in DOMAIN sessionScore.byMode :
          sessionScore.byMode[m].correct <= sessionScore.byMode[m].total
    /\ SumByMode(sessionScore, "total", DOMAIN sessionScore.byMode)
          = sessionScore.total
    /\ SumByMode(sessionScore, "correct", DOMAIN sessionScore.byMode)
          = sessionScore.correct
    /\ Len(results) = sessionScore.total

(* one wrong answer in one mode and one right answer in the other *)
C36_Witness ==
    /\ sessionScore.total = 2 /\ sessionScore.correct = 1
    /\ DOMAIN sessionScore.byMode = Modes
    /\ sessionScore.byMode["grammar"] = [correct |-> 0, total |-> 1]
    /\ Len(results) = 2

(* C37: a mode change changes the quiz state only (filtered list, question *)
(* index back to 0, loaded question); the segment index, the session       *)
(* score, the results, the playback position and the playing/paused state  *)
(* are left as they were, as is everything else outside the quiz.          *)
C37_ModeChangeFrame ==
    [][ChangeMode =>
          /\ currentMode' # currentMode
          /\ currentQuestionIndex' = 0
          /\ currentQuestions' =
                 filterQuestionsByMode(currentMode',
                                       vttCues[currentCueIndex + 1].questions)
          /\ currentQuestions' # << >> => currentQuestion' = currentQuestions'[1]
          /\ UNCHANGED << vttCues, currentCueIndex, playerCueIndex, sessionScore,
                          results, statsShown, currentTime, paused, isPlaying,
                          mediaEvents, timers, autoPlayEnabled, prevBtnDisabled,
                          nextBtnDisabled, currentSpeed, playbackRate >>]_vars

(* the mode was changed on segment 1 while it was playing, after an answer *)
C37_Witness ==
    /\ currentMode # defaultMode /\ currentCueIndex = 1
    /\ ~paused /\ isPlaying /\ currentTime = 1
    /\ sessionScore.total = 1 /\ Len(results) = 1
    /\ currentQuestionIndex = 0 /\ Len(currentQuestions) = 1

----------------------------------------------------------------------------
(* LessonLoader.loadAllLessons called repeatedly, a new call possibly      *)
(* before an earlier one has settled.  calls holds one record per call:    *)
(* where the call stands, the reply its fetch got and what it returned.    *)

MaxCalls == 3

InFlight == {c \in 1 .. Len(calls) : calls[c].pc \in {"awaitFetch", "awaitJson"}}

(* loadAllLessons up to its first await, or to its early return *)
CallLoadAllLessons ==
    /\ Len(calls) < MaxCalls
    /\ IF isLoading
       THEN /\ calls' = Append(calls, [pc |-> "returned", reply |-> "none",
                                       result |-> allLessons])
            /\ UNCHANGED << isLoading, requests >>
       ELSE /\ isLoading' = TRUE
            /\ requests' = Append(requests, lessonsUrl)
            /\ calls' = Append(calls, [pc |-> "awaitFetch", reply |-> "none",
                                       result |-> NoLessons])
    /\ UNCHANGED << loadPc, allLessons, currentLesson, audioSrc, response,
                    appVars, formatVars >>

(* fetch() settles and the call runs on to await response.json(), or the   *)
(* error is rethrown; on the way out the finally block clears isLoading,   *)
(* which the first variant below forgets when the call throws.             *)
FetchSettles_noFinally ==
    \E c \in 1 .. Len(calls), reply \in LessonsReplies :
        /\ calls[c].pc = "awaitFetch"
        /\ IF reply.status \in {"networkError", "httpError"}
           THEN /\ calls' = [calls EXCEPT ![c].pc = "threw",
                                          ![c].reply = reply.status]
                /\ UNCHANGED isLoading
           ELSE /\ calls' = [calls EXCEPT ![c].pc = "awaitJson",
                                          ![c].reply = reply.status,
                                          ![c].result = reply.index]
                /\ UNCHANGED isLoading
        /\ UNCHANGED << loadPc, allLessons, currentLesson, audioSrc, requests,
                        response, appVars, formatVars >>

FetchSettles ==
    \E c \in 1 .. Len(calls), reply \in LessonsReplies :
        /\ calls[c].pc = "awaitFetch"
        /\ IF reply.status \in {"networkError", "httpError"}
           THEN /\ calls' = [calls EXCEPT ![c].pc = "threw",
                                          ![c].reply = reply.status]
                /\ isLoading' = FALSE
           ELSE /\ calls' = [calls EXCEPT ![c].pc = "awaitJson",
                                          ![c].reply = reply.status,
                                          ![c].result = reply.index]
                /\ UNCHANGED isLoading
        /\ UNCHANGED << loadPc, allLessons, currentLesson, audioSrc, requests,
                        response, appVars, formatVars >>

(* response.json() settles: the index is stored and returned, or the       *)
(* error is rethrown; the finally block clears isLoading either way.       *)
JsonSettles ==
    \E c \in 1 .. Len(calls) :
        /\ calls[c].pc = "awaitJson"
        /\ isLoading' = FALSE
        /\ IF calls[c].reply = "ok"
           THEN /\ allLessons' = calls[c].result
                /\ calls' = [calls EXCEPT ![c].pc = "returned"]
           ELSE /\ calls' = [calls EXCEPT ![c].pc = "threw",
                                          ![c].result = NoLessons]
                /\ UNCHANGED allLessons
        /\ UNCHANGED << loadPc, currentLesson, audioSrc, requests, response,
                        appVars, formatVars >>

NextLessons ==
    \/ CallLoadAllLessons
    \/ FetchSettles
    \/ JsonSettles

SpecLessons == InitLoad /\ [][NextLessons]_vars

(* C38: at most one lesson-index request is in flight at any time and      *)
(* isLoading is true exactly while it is (so it is false again once the    *)
(* request has settled, with or without success); a loadAllLessons call    *)
(* that overlaps an in-flight one issues no request and returns the index  *)
(* cached at that moment.                                                  *)
C38_OneIndexRequestInFlight ==
    /\ [](/\ Cardinality(InFlight) <= 1
          /\ isLoading <=> InFlight # {}
          /\ Len(requests) =
                Cardinality({c \in 1 .. Len(calls) : calls[c].reply # "none"})
                  + Cardinality({c \in InFlight : calls[c].pc = "awaitFetch"}))
    /\ [][(CallLoadAllLessons /\ InFlight # {}) =>
             /\ requests' = requests
             /\ calls'[Len(calls')].pc = "returned"
             /\ calls'[Len(calls')].result = allLessons
             /\ InFlight' = InFlight]_vars

(* a failed call, then a call in flight and a third call overlapping it *)
C38_Witness ==
    /\ Len(calls) = 3
    /\ calls[1].pc = "threw"
    /\ calls[2].pc = "awaitJson"
    /\ calls[3].pc = "returned" /\ calls[3].reply = "none"
    /\ isLoading /\ Len(requests) = 2

(* after a successful load a later call has fetched the index afresh *)
C38_WitnessSettled ==
    /\ Len(calls) = 3
    /\ calls[1].pc = "returned" /\ calls[1].reply = "ok"
    /\ calls[2].pc = "returned" /\ calls[2].reply = "none"
    /\ calls[2].result = NoLessons
    /\ calls[3].pc = "threw"
    /\ ~isLoading /\ allLessons = calls[1].result /\ Len(requests) = 2

(* C39: the app itself starts playback only while auto-play is enabled:    *)
(* when auto-play is off at the moment the delayed auto-play callback      *)
(* runs, a paused player stays paused, and an automatic advance with       *)
(* auto-play off leaves a paused player paused and schedules no playback.  *)
C39_AutoPlayOnlyWhileEnabled ==
    /\ [][(FireAutoPlay /\ ~autoPlayEnabled /\ paused) => paused']_vars
    /\ [][(FireAutoAdvance /\ ~autoPlayEnabled /\ paused) =>
             /\ paused'
             /\ \A k \in 1 .. Len(timers') : timers'[k].kind # "autoplay"]_vars

====
